---- MODULE Spec2Model ----
(***************************************************************************)
(* A model of the slowmade HD wallet core: the wallet manager's lock state *)
(* machine (internal/core/wallet_manager.go), the password manager         *)
(* (internal/security/password_manager.go), the account manager            *)
(* (internal/core/wallet.go), the file store (core.FileStorage) and the    *)
(* envelope encryption services (pkg/crypto/crypto_service.go).            *)
(***************************************************************************)
EXTENDS Integers, Sequences, FiniteSets, TLC

VARIABLES
    rootFile,      \* <base>/wallets/root_wallet.json: NoFile or an HDRootWallet record
    accountsFile,  \* <base>/accounts/accounts.json: NoFile or a sequence of CoinAccount
    addrFiles,     \* <base>/addresses/<id>_addresses.json: account id -> NoFile or sequence
    rootWallet,    \* DefaultWalletManager.rootWallet (Nil or a record)
    isUnlocked,    \* DefaultWalletManager.isUnlocked
    enclave,       \* PasswordManager.enclave (Nil or the sealed password)
    isSealed,      \* PasswordManager.isSealed
    nextRnd,       \* the number of (salt, nonce) pairs drawn from the CSPRNG so far
    ret,           \* the operation that ran last and what it returned
    fsFiles,       \* saveToFile's view of the disk: file name -> file
    savePc,        \* where the running saveToFile stands
    saveData,      \* the value the running saveToFile writes
    saveRet,       \* what the last saveToFile returned, or that the process stopped
    mutex,         \* DefaultWalletManager.mutex: the goroutine that holds it, or 0
    cpc,           \* goroutine -> where its CreateNewWallet call stands
    cpw,           \* goroutine -> the password of its call
    cwallet,       \* goroutine -> the wallet its call has built (Nil or a record)
    cret,          \* goroutine -> what its call returned
    envSvc,        \* the CryptoService under test: its AEAD and its KDF
    envPlain,      \* the payload handed to its Encrypt
    envPw,         \* the password handed to its Encrypt
    envBlob,       \* the hex string Encrypt returned (empty before the call)
    envIn,         \* what the last Decrypt was handed: the blob whole or cut
    envOpenPw,     \* the password handed to the last Decrypt
    envOut,        \* what the last Decrypt returned
    fsMutex,       \* FileStorage.mutex: the goroutine that holds it to write, and the readers
    kpc,           \* goroutine -> where its call of the store stands
    kjob,          \* goroutine -> the operation of the store it called, and its argument
    kloaded,       \* goroutine -> what its call has loaded from the file
    kret,          \* goroutine -> what its call returned
    mnEntropy,     \* the entropy of the last mnemonic made
    mnWords,       \* the last mnemonic made, as word indexes, and the function that made it
    mnBack,        \* what MnemonicToEntropy returned for it
    dpIn,          \* the string handed to the last ParseDerivationPath, as characters
    dpOut,         \* what it returned: an error or a DerivationPath
    plain,         \* the plaintext buffers the derivations have left unzeroized,
                   \* where the heap is watched
    flight,        \* the call in progress of the goroutine that calls the wallet:
                   \* its position and locals, and how far its security.Password()
                   \* has come
    instance,      \* the package variable instance of password_manager.go: the
                   \* manager made first (enclave, isSealed; the REPL holds it),
                   \* one made after a reset, or nil
    once,          \* the package variable once: its done flag and its mutex
    resetCall,     \* a ResetPasswordManagerInstance in progress: its position and
                   \* the pointer its first assignment overwrote
    pwCall,        \* a security.Password() in progress: its position and the
                   \* pointer GetPasswordManager returned to it
    listing,       \* a GetAccountsByCoin in progress: its position and argument
    stdout,        \* the mnemonic wallet.create has shown last
    repoMu,        \* WalletRepository.mu: the writer and the readers that hold it
    repoCache,     \* WalletRepository.VirtualWallets
    repoFiles,     \* the wallet files of the keystore directory
    repoCall,      \* each goroutine's call of the repository: position and locals
    repoFatal      \* the runtime has stopped the process on a concurrent map access

walletVars == <<rootFile, accountsFile, addrFiles, rootWallet, isUnlocked,
                enclave, isSealed, nextRnd, ret>>

saveVars == <<fsFiles, savePc, saveData, saveRet>>

createVars == <<mutex, cpc, cpw, cwallet, cret>>

\* the variables the wallet's operations leave alone
envVars == <<envSvc, envPlain, envPw, envBlob, envIn, envOpenPw, envOut>>

catalogVars == <<fsMutex, kpc, kjob, kloaded, kret>>

mnVars == <<mnEntropy, mnWords, mnBack>>

\* the variables of the mnemonic services and of the sections after them
pathVars == <<dpIn, dpOut>>

heapVars == <<plain>>

flightVars == <<flight>>

singletonVars == <<instance, once, resetCall, pwCall>>

listVars == <<listing>>

termVars == <<stdout>>

repoVars == <<repoMu, repoCache, repoFiles, repoCall, repoFatal>>

moreVars == <<mnVars, pathVars, heapVars, flightVars, singletonVars, listVars, termVars,
              repoVars>>

\* the variables beside the wallet's, the heap and the call in progress that
\* a step of a call leaves alone
deriveOthers == <<saveVars, createVars, envVars, catalogVars, mnVars, pathVars, singletonVars,
                  listVars, termVars, repoVars>>

\* the same without the password manager's references
replOthers == <<saveVars, createVars, envVars, catalogVars, mnVars, pathVars, listVars, termVars,
                repoVars>>

\* what a step of GetAccountsByCoin leaves alone beside the wallet
listOthers == <<saveVars, createVars, envVars, catalogVars, mnVars, pathVars, heapVars,
                flightVars, singletonVars, termVars, repoVars>>

auxVars == <<saveVars, createVars, envVars, catalogVars, moreVars>>

\* the variables the steps of saveToFile leave alone
saveOthers == <<walletVars, createVars, envVars, catalogVars, moreVars>>

vars == <<walletVars, auxVars>>

----------------------------------------------------------------------------
(* Bounds of the model. *)

\* the CSPRNG is drawn from at most MaxRnd times in one behaviour
MaxRnd == 5
\* time.Now().Unix() returns a value in 1..MaxTime
MaxTime == 1

\* a nil pointer; a pointer to v is <<v>>
Nil == <<>>
\* the goroutine that calls the wallet is in no call: pc names the call a
\* handler in progress makes next, arg holds its arguments, work its locals;
\* pm is the position of a security.Password() the call has begun ("none"
\* before it begins) and, once GetPasswordManager has returned, its pointer
NoFlight == [pc |-> "idle", op |-> "none", arg |-> <<>>, work |-> <<>>, pm |-> "none"]
\* no GetAccountsByCoin, no reset and no security.Password() in progress
NoListing == [pc |-> "idle", arg |-> <<>>]
NoReset == [pc |-> "idle", old |-> "nil"]
NoPwCall == [pc |-> "idle", pm |-> "nil"]
\* sync.Once{}, and once after GetPasswordManager has run
FreshOnce == [done |-> FALSE, m |-> FALSE]
DoneOnce == [done |-> TRUE, m |-> FALSE]
\* a file that does not exist; a file holding the JSON of v is File(v)
NoFile == [st |-> "missing", data |-> <<>>]
File(v) == [st |-> "ok", data |-> <<v>>]

Passwords == {"", "pw1", "pw2"}
ValidMnemonics == {"m1"}
Mnemonics == ValidMnemonics \cup {"not a mnemonic"}
Times == 1..MaxTime

----------------------------------------------------------------------------
(* Derivation paths.  A uint32 path component is [n, h]: its low 31 bits   *)
(* and its bit 31 (the hardened bit), so its value is n + h * 2^31.        *)

U32(n) == [n |-> n, h |-> FALSE]
Hardened(n) == [n |-> n, h |-> TRUE]

DerivationPath(purpose, coinType, accountIndex, change, addressIndex) ==
    [Purpose |-> purpose, CoinType |-> coinType, AccountIndex |-> accountIndex,
     Change |-> change, AddressIndex |-> addressIndex]

\* a MaskSuffix that keeps the change and the address index
MaskSuffixKeeps(p) == p
\* DerivationPath.MaskSuffix
MaskSuffix(p) == [p EXCEPT !.Change = U32(0), !.AddressIndex = U32(0)]

\* DerivationPath.String: "m/%d'/%d'/%d'/%d/%d", the first three with bit 31
\* removed and an apostrophe added, the last two written in full
PathString(p) ==
    [purpose |-> p.Purpose.n, coin |-> p.CoinType.n, account |-> p.AccountIndex.n,
     change |-> p.Change, index |-> p.AddressIndex]

\* DefaultAccountManager.IDString with maxLength = 0: "file_" + hex(sha256(path))
IDString(pathString) == <<"file_", pathString>>

\* coin.CoinSymbol: the registry is looked up with bit 31 cleared
CoinSymbol(coinType) ==
    CASE coinType.n = 0   -> "BTC"
      [] coinType.n = 60  -> "ETH"
      [] coinType.n = 501 -> "SOL"
      [] coinType.n = 714 -> "BNB"
      [] coinType.n = 784 -> "SUI"
      [] OTHER            -> ""

\* the paths handed to CreateNewAccount (each as ParseDerivationPath returns it)
Paths ==
    {DerivationPath(Hardened(44), Hardened(0), Hardened(0), U32(0), U32(0)),
     DerivationPath(Hardened(44), Hardened(60), Hardened(0), U32(0), U32(0)),
     DerivationPath(Hardened(44), U32(0), Hardened(0), U32(0), U32(0)),
     DerivationPath(Hardened(44), Hardened(0), Hardened(0), U32(1), U32(5)),
     DerivationPath(Hardened(44), Hardened(1), Hardened(0), U32(0), U32(0))}

\* the ids of the accounts those paths can create
AccountIds ==
    {IDString(PathString(MaskSuffix(p))) : p \in {q \in Paths : CoinSymbol(q.CoinType) # ""}}

\* the arguments handed to DeriveAddress
DeriveIds == AccountIds \cup {<<"file_", PathString(DerivationPath(U32(0), U32(0), U32(0), U32(0), U32(0)))>>}
ChangeTypes == {U32(0), U32(1)}
AddressIndexes == {U32(0)}

\* the change types and indexes of any uint32: also a change type that is
\* neither 0 nor 1 and an index with bit 31 set
AnyChangeTypes == ChangeTypes \cup {U32(2)}
AnyAddressIndexes == AddressIndexes \cup {Hardened(0)}

----------------------------------------------------------------------------
(* The envelope, at the level of what a blob is made from.  The default    *)
(* service is AES-GCM with scrypt: the hex string it returns is determined *)
(* by the salt and nonce drawn, the key derived and the plaintext.         *)

\* ScryptKDF.DeriveKey: the key is a function of the password and the salt
DeriveKey(password, salt) == <<"scrypt", password, salt>>

\* crypto.EncryptData, with r the (salt, nonce) pair drawn from the CSPRNG
EncryptData(d, password, r) ==
    [hex |-> TRUE, rnd |-> r, key |-> DeriveKey(password, r), pt |-> d]

\* plaintexts are tuples <<kind, ...>> of strings
Failed == <<"failed">>
\* a string that is not the hex of anything
NotHex == [hex |-> FALSE, rnd |-> 0, key |-> DeriveKey("", 0), pt |-> Failed]

IsBlob(s) == s.hex

\* crypto.DecryptData: ErrInvalidCiphertext for a string that is not hex,
\* ErrDecryptionFailed when the tag does not verify under the derived key
DecryptData(s, password) ==
    IF ~IsBlob(s) THEN [err |-> "ErrInvalidCiphertext", pt |-> Failed]
    ELSE IF s.key # DeriveKey(password, s.rnd)
         THEN [err |-> "ErrDecryptionFailed", pt |-> Failed]
         ELSE [err |-> "nil", pt |-> s.pt]

\* whether the password opens the blob
Opens(s, password) == DecryptData(s, password).err = "nil"

\* bip39 seed: PBKDF2 over the mnemonic, salted with "mnemonic" + cloak
GenerateSeedFromMnemonic(mnemonic, cloak) == <<"seed", mnemonic, cloak>>

\* []byte(mnemonic)
MnemonicBytes(mnemonic) == <<"mnemonic", mnemonic>>

\* bip39.IsMnemonicValid
ValidateMnemonic(mnemonic) == mnemonic \in ValidMnemonics

----------------------------------------------------------------------------
(* FileStorage: every Save rewrites the whole file, every Load reads it.   *)

\* FileStorage.LoadRootWallet: a missing file is (nil, nil), a file that does
\* not hold JSON is (nil, err)
LoadRootWallet ==
    CASE rootFile.st = "missing" -> [err |-> "nil", wallet |-> Nil]
      [] rootFile.st = "corrupt" -> [err |-> "ErrDecode", wallet |-> Nil]
      [] OTHER -> [err |-> "nil", wallet |-> rootFile.data]

\* FileStorage.LoadAccounts / loadAllAccounts: a missing file is the empty
\* list, a file that does not hold JSON is (nil, err)
LoadAllAccounts ==
    CASE accountsFile.st = "missing" -> [err |-> "nil", accounts |-> <<>>]
      [] accountsFile.st = "corrupt" -> [err |-> "ErrDecode", accounts |-> <<>>]
      [] OTHER -> [err |-> "nil", accounts |-> accountsFile.data[1]]

\* the index of the first account of the list with the id, from i on, or 0
RECURSIVE FirstAccountIndex(_, _, _)
FirstAccountIndex(accounts, id, i) ==
    IF i > Len(accounts) THEN 0
    ELSE IF accounts[i].ID = id THEN i
    ELSE FirstAccountIndex(accounts, id, i + 1)

\* the index of the first address of the list with the account, change type
\* and index of the given one, from i on, or 0
RECURSIVE FirstAddressIndex(_, _, _)
FirstAddressIndex(addresses, address, i) ==
    IF i > Len(addresses) THEN 0
    ELSE IF /\ addresses[i].AccountID = address.AccountID
            /\ addresses[i].ChangeType = address.ChangeType
            /\ addresses[i].AddressIndex = address.AddressIndex
         THEN i
    ELSE FirstAddressIndex(addresses, address, i + 1)

----------------------------------------------------------------------------
(* PasswordManager *)

PasswordIsSet == ~isSealed /\ enclave # Nil

\* PasswordManager.GetPassword of the manager made first
GetPassword ==
    IF isSealed \/ enclave = Nil
    THEN [err |-> "ErrPasswordNotSet", password |-> ""]
    ELSE [err |-> "nil", password |-> enclave[1]]

\* PasswordManager.GetPassword through the pointer pm: a manager made after
\* a reset has never been given a password, a nil pointer panics at
\* pm.mu.RLock()
GetPasswordOf(pm) ==
    IF pm = "nil" THEN [err |-> "panic", password |-> ""]
    ELSE IF pm = "later" THEN [err |-> "ErrPasswordNotSet", password |-> ""]
    ELSE GetPassword

\* GetPasswordManager run in one piece: the pointer it returns and what it
\* leaves in once; once.Do makes a manager when once is not done
GetPasswordManager ==
    [instance |-> IF once.done THEN instance ELSE "later",
     once     |-> [once EXCEPT !.done = TRUE]]

\* security.Password: GetPasswordManager().GetPassword()
Password == GetPasswordOf(GetPasswordManager.instance)

\* PasswordManager.VerifyPassword
VerifyPassword(input) ==
    IF isSealed \/ enclave = Nil
    THEN [err |-> "ErrPasswordNotSet", same |-> FALSE]
    ELSE [err |-> "nil", same |-> (enclave[1] = input)]

\* unsafeClear without pm.enclave = nil
UnsafeClearKeepsEnclave == [enclave |-> enclave, isSealed |-> TRUE]

\* PasswordManager.unsafeClear: what it leaves in (enclave, isSealed)
UnsafeClear == [enclave |-> Nil, isSealed |-> TRUE]

\* memguard.NewBufferFromBytes(passwordBytes).Seal(): the buffer of an empty
\* password is the null buffer, and sealing it gives no enclave
Seal(password) == IF password = "" THEN Nil ELSE <<password>>

\* PasswordManager.SetPassword
SetPassword(password) ==
    /\ enclave' = Seal(password)
    /\ isSealed' = FALSE
    /\ UNCHANGED auxVars
    /\ ret' = [op |-> "SetPassword", err |-> "nil"]
    /\ UNCHANGED <<rootFile, accountsFile, addrFiles, rootWallet, isUnlocked, nextRnd>>

\* PasswordManager.Clear
Clear ==
    /\ enclave' = UnsafeClear.enclave
    /\ isSealed' = UnsafeClear.isSealed
    /\ UNCHANGED auxVars
    /\ ret' = [op |-> "Clear", err |-> "nil"]
    /\ UNCHANGED <<rootFile, accountsFile, addrFiles, rootWallet, isUnlocked, nextRnd>>

\* a GetPassword call, its result kept in ret
CallGetPassword ==
    /\ UNCHANGED auxVars
    /\ ret' = [op |-> "GetPassword", err |-> GetPassword.err]
    /\ UNCHANGED <<rootFile, accountsFile, addrFiles, rootWallet, isUnlocked,
                   enclave, isSealed, nextRnd>>

\* a VerifyPassword call, its result kept in ret
CallVerifyPassword(input) ==
    /\ UNCHANGED auxVars
    /\ ret' = [op |-> "VerifyPassword", err |-> VerifyPassword(input).err]
    /\ UNCHANGED <<rootFile, accountsFile, addrFiles, rootWallet, isUnlocked,
                   enclave, isSealed, nextRnd>>

\* the process runs: no panic and no fatal error has ended it
Running == pwCall.pc # "stopped" /\ flight.pc # "stopped"

\* security.Password() of another goroutine, its entry into once.Do: the
\* read of done; with once done the function is skipped, otherwise the slow
\* path is taken
CallSecurityPassword ==
    /\ pwCall.pc = "idle"
    /\ pwCall' = [pwCall EXCEPT !.pc = IF once.done THEN "return" ELSE "Lock"]
    /\ UNCHANGED <<instance, once, resetCall>>
    /\ UNCHANGED walletVars
    /\ UNCHANGED <<replOthers, plain, flight>>

\* once.Do, its slow path: once.m.Lock(), which waits while another
\* goroutine holds the mutex
OnceDoSlow ==
    /\ pwCall.pc = "Lock"
    /\ ~once.m
    /\ once' = [once EXCEPT !.m = TRUE]
    /\ pwCall' = [pwCall EXCEPT !.pc = "Do"]
    /\ UNCHANGED <<instance, resetCall>>
    /\ UNCHANGED walletVars
    /\ UNCHANGED <<replOthers, plain, flight>>

\* once.Do, its slow path under the mutex: unless done has been stored
\* meanwhile the function makes a manager and done is stored; then once.m is
\* unlocked. A once assigned anew since the lock was taken has an unlocked
\* mutex, and the runtime ends the process ("sync: unlock of unlocked
\* mutex")
OnceDo ==
    /\ pwCall.pc = "Do"
    /\ instance' = IF once.done THEN instance ELSE "later"
    /\ once' = DoneOnce
    /\ IF once.m
       THEN /\ pwCall' = [pwCall EXCEPT !.pc = "return"]
            /\ UNCHANGED ret
       ELSE /\ pwCall' = [pwCall EXCEPT !.pc = "stopped"]
            /\ ret' = [op |-> "Password", err |-> "fatal"]
    /\ UNCHANGED resetCall
    /\ UNCHANGED <<rootFile, accountsFile, addrFiles, rootWallet, isUnlocked, enclave,
                   isSealed, nextRnd>>
    /\ UNCHANGED <<replOthers, plain, flight>>

\* GetPasswordManager, its return instance: the read is not synchronised
\* with the assignment instance = nil of a reset in progress, so it sees
\* the pointer after it or the one before it
GetPasswordManagerReturn ==
    /\ pwCall.pc = "return"
    /\ \E pm \in {instance} \cup (IF resetCall.pc = "once" THEN {resetCall.old} ELSE {}) :
          pwCall' = [pc |-> "GetPassword", pm |-> pm]
    /\ UNCHANGED <<instance, once, resetCall>>
    /\ UNCHANGED walletVars
    /\ UNCHANGED <<replOthers, plain, flight>>

\* security.Password(), its call GetPassword() on the pointer it was given,
\* and the return; the panic of a nil pointer ends the process
SecurityPasswordGet ==
    /\ pwCall.pc = "GetPassword"
    /\ ret' = [op |-> "Password", err |-> GetPasswordOf(pwCall.pm).err]
    /\ pwCall' = IF pwCall.pm = "nil" THEN [pwCall EXCEPT !.pc = "stopped"] ELSE NoPwCall
    /\ UNCHANGED <<instance, once, resetCall>>
    /\ UNCHANGED <<rootFile, accountsFile, addrFiles, rootWallet, isUnlocked, enclave,
                   isSealed, nextRnd>>
    /\ UNCHANGED <<replOthers, plain, flight>>

\* ResetPasswordManagerInstance, its first assignment: instance = nil. The
\* managers made so far stay with those that hold them
ResetInstance ==
    /\ resetCall.pc = "idle"
    /\ instance' = "nil"
    /\ resetCall' = [pc |-> "once", old |-> instance]
    /\ UNCHANGED <<once, pwCall>>
    /\ UNCHANGED walletVars
    /\ UNCHANGED <<replOthers, plain, flight>>

\* ResetPasswordManagerInstance, its second assignment: once = sync.Once{},
\* after which GetPasswordManager makes a manager again; and the return
ResetOnce ==
    /\ resetCall.pc = "once"
    /\ once' = FreshOnce
    /\ resetCall' = NoReset
    /\ ret' = [op |-> "ResetPasswordManagerInstance", err |-> "nil"]
    /\ UNCHANGED <<instance, pwCall>>
    /\ UNCHANGED <<rootFile, accountsFile, addrFiles, rootWallet, isUnlocked, enclave,
                   isSealed, nextRnd>>
    /\ UNCHANGED <<replOthers, plain, flight>>

----------------------------------------------------------------------------
(* DefaultWalletManager *)

\* the record CreateNewWallet and RestoreWalletFromMnemonic build
NewRootWallet(mnemonic, password, t) ==
    [encryptedMnemonic |-> EncryptData(MnemonicBytes(mnemonic), password, nextRnd + 1),
     encryptedSeed     |-> EncryptData(GenerateSeedFromMnemonic(mnemonic, password),
                                       password, nextRnd + 2),
     creationTime      |-> t]

\* the tail shared by create and restore: seal twice, save, keep the wallet
SealAndSaveRoot(op, mnemonic, password, t, saved) ==
    /\ nextRnd + 2 <= MaxRnd
    /\ nextRnd' = nextRnd + 2
    /\ IF saved
       THEN /\ rootFile' = File(NewRootWallet(mnemonic, password, t))
            /\ rootWallet' = <<NewRootWallet(mnemonic, password, t)>>
            /\ UNCHANGED auxVars
            /\ ret' = [op |-> op, err |-> "nil"]
       ELSE /\ UNCHANGED auxVars
            /\ ret' = [op |-> op, err |-> "ErrSaveFailed"]
            /\ UNCHANGED <<rootFile, rootWallet>>
    /\ UNCHANGED <<accountsFile, addrFiles, isUnlocked, enclave, isSealed>>

\* a CreateNewWallet that does not look for a stored wallet
ExistingWalletErrSkipped == "nil"

\* CreateNewWallet, its check for a wallet already stored
ExistingWalletErr ==
    IF LoadRootWallet.err # "nil" THEN "ErrCheckExisting"
    ELSE IF LoadRootWallet.wallet # Nil THEN "ErrWalletExists"
    ELSE "nil"

\* DefaultWalletManager.CreateNewWallet
CreateNewWallet(password, mnemonic, t, saved) ==
    IF ExistingWalletErr # "nil"
    THEN /\ UNCHANGED auxVars
         /\ ret' = [op |-> "CreateNewWallet", err |-> ExistingWalletErr]
         /\ UNCHANGED <<rootFile, accountsFile, addrFiles, rootWallet, isUnlocked,
                        enclave, isSealed, nextRnd>>
    ELSE SealAndSaveRoot("CreateNewWallet", mnemonic, password, t, saved)

\* DefaultWalletManager.RestoreWalletFromMnemonic
RestoreWalletFromMnemonic(mnemonic, password, t, saved) ==
    IF ~ValidateMnemonic(mnemonic)
    THEN /\ UNCHANGED auxVars
         /\ ret' = [op |-> "RestoreWallet", err |-> "ErrInvalidMnemonic"]
         /\ UNCHANGED <<rootFile, accountsFile, addrFiles, rootWallet, isUnlocked,
                        enclave, isSealed, nextRnd>>
    ELSE SealAndSaveRoot("RestoreWallet", mnemonic, password, t, saved)

\* the blob UnlockWallet checks the password against: its own argument
UnlockCheckedBlob(encryptedMnemonic, wallet) == encryptedMnemonic

\* what UnlockWallet returns
UnlockWalletErr(encryptedMnemonic, password) ==
    IF LoadRootWallet.err # "nil" THEN "ErrLoadWallet"
    ELSE IF LoadRootWallet.wallet = Nil THEN "ErrWalletNotFound"
    ELSE IF ~IsBlob(UnlockCheckedBlob(encryptedMnemonic, LoadRootWallet.wallet[1]))
         THEN "ErrDecodeFailed"
    ELSE IF ~Opens(UnlockCheckedBlob(encryptedMnemonic, LoadRootWallet.wallet[1]), password)
         THEN "ErrWrongPassword"
    ELSE "nil"

\* DefaultWalletManager.UnlockWallet
UnlockWallet(encryptedMnemonic, password) ==
    /\ UNCHANGED auxVars
    /\ ret' = [op |-> "UnlockWallet", err |-> UnlockWalletErr(encryptedMnemonic, password)]
    /\ IF UnlockWalletErr(encryptedMnemonic, password) = "nil"
       THEN /\ rootWallet' = LoadRootWallet.wallet
            /\ isUnlocked' = TRUE
       ELSE UNCHANGED <<rootWallet, isUnlocked>>
    /\ UNCHANGED <<rootFile, accountsFile, addrFiles, enclave, isSealed, nextRnd>>

\* LockWallet with the flag left as it was
LockWalletKeepsFlag(wallet, unlocked) ==
    IF wallet = Nil \/ ~unlocked
    THEN [rootWallet |-> wallet, isUnlocked |-> unlocked]
    ELSE [rootWallet |-> Nil, isUnlocked |-> unlocked]

\* DefaultWalletManager.LockWallet: what it leaves in (rootWallet, isUnlocked).
\* wipeSensitiveData zeroes copies of the two strings, never the record.
LockWalletResult(wallet, unlocked) ==
    IF wallet = Nil \/ ~unlocked
    THEN [rootWallet |-> wallet, isUnlocked |-> FALSE]
    ELSE [rootWallet |-> Nil, isUnlocked |-> FALSE]

\* DefaultWalletManager.LockWallet
LockWallet ==
    /\ rootWallet' = LockWalletResult(rootWallet, isUnlocked).rootWallet
    /\ isUnlocked' = LockWalletResult(rootWallet, isUnlocked).isUnlocked
    /\ UNCHANGED auxVars
    /\ ret' = [op |-> "LockWallet", err |-> "nil"]
    /\ UNCHANGED <<rootFile, accountsFile, addrFiles, enclave, isSealed, nextRnd>>

\* WalletManager.IsLocked
IsLocked == ~isUnlocked

\* REPL.handleWalletLock, its first call: r.walletMgr.LockWallet()
HandleWalletLock ==
    /\ flight = NoFlight
    /\ rootWallet' = LockWalletResult(rootWallet, isUnlocked).rootWallet
    /\ isUnlocked' = LockWalletResult(rootWallet, isUnlocked).isUnlocked
    /\ flight' = [NoFlight EXCEPT !.pc = "Clear", !.op = "wallet.lock"]
    /\ UNCHANGED <<rootFile, accountsFile, addrFiles, enclave, isSealed, nextRnd, ret>>
    /\ UNCHANGED <<deriveOthers, plain>>

\* REPL.handleWalletLock, its second call: r.passwordMgr.Clear(), and the return
HandleWalletLockClear ==
    /\ flight.op = "wallet.lock"
    /\ flight.pc = "Clear"
    /\ enclave' = UnsafeClear.enclave
    /\ isSealed' = UnsafeClear.isSealed
    /\ ret' = [op |-> "wallet.lock", err |-> "nil"]
    /\ flight' = NoFlight
    /\ UNCHANGED <<rootFile, accountsFile, addrFiles, rootWallet, isUnlocked, nextRnd>>
    /\ UNCHANGED <<deriveOthers, plain>>

\* REPL.handleWalletUnlock up to its call of UnlockWallet: nothing is done
\* when IsLocked reports the wallet unlocked
HandleWalletUnlock(password) ==
    /\ flight = NoFlight
    /\ IF ~IsLocked
       THEN /\ ret' = [op |-> "wallet.unlock", err |-> "nil"]
            /\ UNCHANGED flight
       ELSE /\ flight' = [NoFlight EXCEPT !.pc = "UnlockWallet", !.op = "wallet.unlock",
                                           !.arg = <<password>>]
            /\ UNCHANGED ret
    /\ UNCHANGED <<rootFile, accountsFile, addrFiles, rootWallet, isUnlocked, enclave,
                   isSealed, nextRnd>>
    /\ UNCHANGED <<deriveOthers, plain>>

\* what WalletManager.UnlockWallet(password) returns: the password is tried
\* on the encrypted mnemonic of the stored root wallet
UnlockStoredErr(password) ==
    IF LoadRootWallet.err # "nil" THEN "ErrLoadWallet"
    ELSE IF LoadRootWallet.wallet = Nil THEN "ErrWalletNotFound"
    ELSE UnlockWalletErr(LoadRootWallet.wallet[1].encryptedMnemonic, password)

\* REPL.handleWalletUnlock, its call r.walletMgr.UnlockWallet(password)
HandleWalletUnlockCall ==
    /\ flight.op = "wallet.unlock"
    /\ flight.pc = "UnlockWallet"
    /\ IF UnlockStoredErr(flight.arg[1]) # "nil"
       THEN /\ ret' = [op |-> "wallet.unlock", err |-> UnlockStoredErr(flight.arg[1])]
            /\ flight' = NoFlight
            /\ UNCHANGED <<rootWallet, isUnlocked>>
       ELSE /\ rootWallet' = LoadRootWallet.wallet
            /\ isUnlocked' = TRUE
            /\ flight' = [flight EXCEPT !.pc = "SetPassword"]
            /\ UNCHANGED ret
    /\ UNCHANGED <<rootFile, accountsFile, addrFiles, enclave, isSealed, nextRnd>>
    /\ UNCHANGED <<deriveOthers, plain>>

\* REPL.handleWalletUnlock, its call r.passwordMgr.SetPassword(password), and
\* the return
HandleWalletUnlockSet ==
    /\ flight.op = "wallet.unlock"
    /\ flight.pc = "SetPassword"
    /\ enclave' = Seal(flight.arg[1])
    /\ isSealed' = FALSE
    /\ ret' = [op |-> "wallet.unlock", err |-> "nil"]
    /\ flight' = NoFlight
    /\ UNCHANGED <<rootFile, accountsFile, addrFiles, rootWallet, isUnlocked, nextRnd>>
    /\ UNCHANGED <<deriveOthers, plain>>

\* REPL.handleWalletCreate up to its call r.walletMgr.CreateNewWallet(password),
\* whose error ends the command
HandleWalletCreate(password, mnemonic, t, saved) ==
    /\ flight = NoFlight
    /\ IF ExistingWalletErr # "nil"
       THEN /\ ret' = [op |-> "wallet.create", err |-> ExistingWalletErr]
            /\ UNCHANGED <<flight, rootFile, rootWallet, nextRnd>>
       ELSE /\ nextRnd + 2 <= MaxRnd
            /\ nextRnd' = nextRnd + 2
            /\ IF saved
               THEN /\ rootFile' = File(NewRootWallet(mnemonic, password, t))
                    /\ rootWallet' = <<NewRootWallet(mnemonic, password, t)>>
                    /\ flight' = [NoFlight EXCEPT !.pc = "ExportMnemonic",
                                                   !.op = "wallet.create",
                                                   !.arg = <<password>>]
                    /\ UNCHANGED ret
               ELSE /\ ret' = [op |-> "wallet.create", err |-> "ErrSaveFailed"]
                    /\ UNCHANGED <<flight, rootFile, rootWallet>>
    /\ UNCHANGED <<accountsFile, addrFiles, isUnlocked, enclave, isSealed>>
    /\ UNCHANGED <<deriveOthers, plain>>

\* WalletManager.ExportMnemonic: the mnemonic of the root wallet, opened with
\* the password when the password opens the seed
ExportMnemonic(password) ==
    IF rootWallet = Nil THEN [err |-> "ErrWalletNotCreated", pt |-> Failed]
    ELSE IF ~Opens(rootWallet[1].encryptedSeed, password)
         THEN [err |-> "AuthFailure", pt |-> Failed]
    ELSE DecryptData(rootWallet[1].encryptedMnemonic, password)

\* REPL.handleWalletCreate, its call r.walletMgr.ExportMnemonic(password): the
\* mnemonic is shown when the call gave one, its error is dropped, and the
\* command returns nil
HandleWalletCreateExport ==
    /\ flight.op = "wallet.create"
    /\ flight.pc = "ExportMnemonic"
    /\ stdout' = IF ExportMnemonic(flight.arg[1]).err = "nil"
                 THEN ExportMnemonic(flight.arg[1]).pt
                 ELSE stdout
    /\ ret' = [op |-> "wallet.create", err |-> "nil"]
    /\ flight' = NoFlight
    /\ UNCHANGED <<rootFile, accountsFile, addrFiles, rootWallet, isUnlocked, enclave,
                   isSealed, nextRnd>>
    /\ UNCHANGED <<saveVars, createVars, envVars, catalogVars, mnVars, pathVars, singletonVars,
                   listVars, repoVars, plain>>

\* REPL.handleWalletRestore
HandleWalletRestore(mnemonic, password, t, saved) ==
    RestoreWalletFromMnemonic(mnemonic, password, t, saved)

\* WalletManager.Seed: the stored seed, opened with the cached password
Seed ==
    IF rootWallet = Nil THEN [err |-> "ErrWalletNotCreated", pt |-> Failed]
    ELSE IF GetPassword.err # "nil" THEN [err |-> GetPassword.err, pt |-> Failed]
    ELSE DecryptData(rootWallet[1].encryptedSeed, GetPassword.password)

----------------------------------------------------------------------------
(* BIP-32 keys: a key is the seed it descends from and the child numbers   *)
(* taken from the master key.                                              *)

\* bip32.NewMasterKey
NewMasterKey(seed) == [seed |-> seed, path |-> <<>>]
\* bip32.Key.NewChildKey
NewChildKey(key, childIdx) == [key EXCEPT !.path = Append(@, childIdx)]

\* DefaultAccountManager.deriveAccountKey, given the seed
DeriveAccountKey(seed, dp) ==
    NewChildKey(NewChildKey(NewChildKey(NewMasterKey(seed), dp.Purpose),
                            dp.CoinType), dp.AccountIndex)

\* the length of bip32.Key.PublicKey().Key: a compressed secp256k1 point
PublicKeyLen == 33

\* the public key length each AddressGenerator accepts
GeneratorKeyLen(coinType) ==
    CASE coinType = Hardened(0)   -> 33
      [] coinType = Hardened(60)  -> 64
      [] coinType = Hardened(501) -> 32
      [] coinType = Hardened(714) -> 64
      [] coinType = Hardened(784) -> 32
      [] OTHER                    -> 0

\* DefaultAccountManager.generateAddress
GenerateAddress(coinType, key) ==
    IF GeneratorKeyLen(coinType) # PublicKeyLen
    THEN [err |-> "ErrGenerateAddress", address |-> <<>>, publicKey |-> <<>>]
    ELSE [err |-> "nil", address |-> <<"addr", coinType.n, key>>, publicKey |-> <<"pub", key>>]

\* CoinAccount.CoinType: the coin type parsed back from the stored path string,
\* which always shows the apostrophe
CoinTypeOf(account) == Hardened(account.DerivationPath.coin)

----------------------------------------------------------------------------
(* FileStorage: accounts and addresses *)

\* SaveAccount without the lookup: every account is appended
SavedAccountsAppended(accounts, account) == Append(accounts, account)

\* FileStorage.SaveAccount: the list it writes
SavedAccounts(accounts, account) ==
    LET i == FirstAccountIndex(accounts, account.ID, 1)
    IN IF i > 0 THEN [accounts EXCEPT ![i] = account] ELSE Append(accounts, account)

\* FileStorage.LoadAddresses, and the load that opens SaveAddress: a missing
\* file is the empty list, a file that does not hold JSON is (nil, err)
LoadAddressList(accountID) ==
    CASE addrFiles[accountID].st = "missing" -> [err |-> "nil", addresses |-> <<>>]
      [] addrFiles[accountID].st = "corrupt" -> [err |-> "ErrDecode", addresses |-> <<>>]
      [] OTHER -> [err |-> "nil", addresses |-> addrFiles[accountID].data[1]]

\* SaveAddress without the lookup: every address is appended
SavedAddressesAppended(addresses, address) == Append(addresses, address)

\* FileStorage.SaveAddress: the list it writes
SavedAddresses(addresses, address) ==
    LET i == FirstAddressIndex(addresses, address, 1)
    IN IF i > 0 THEN [addresses EXCEPT ![i] = address] ELSE Append(addresses, address)

----------------------------------------------------------------------------
(* DefaultAccountManager *)

\* the derivations without their lock check
DerivationNeverRefused == FALSE

\* the lock check that opens CreateNewAccount and DeriveAddress
DerivationRefused == IsLocked

\* the heap of a process nobody watches
Unwatched == {"unwatched"}

\* the heap after a call has left these buffers behind
LeftBehind(buffers) == IF plain = Unwatched THEN plain ELSE plain \cup buffers

\* DefaultAccountManager.CreateNewAccount up to its call of deriveAccountKey:
\* the lock check and the lookup of the coin
CreateNewAccount(derivationPath) ==
    /\ flight = NoFlight
    /\ IF DerivationRefused
       THEN /\ ret' = [op |-> "CreateNewAccount", err |-> "ErrWalletLocked"]
            /\ UNCHANGED flight
       ELSE IF CoinSymbol(derivationPath.CoinType) = ""
       THEN /\ ret' = [op |-> "CreateNewAccount", err |-> "ErrUnsupportedCoin"]
            /\ UNCHANGED flight
       ELSE /\ nextRnd + 1 <= MaxRnd
            /\ flight' = [NoFlight EXCEPT !.pc = "deriveAccountKey", !.op = "CreateNewAccount",
                                           !.arg = <<derivationPath>>]
            /\ UNCHANGED ret
    /\ UNCHANGED <<rootFile, accountsFile, addrFiles, rootWallet, isUnlocked, enclave,
                   isSealed, nextRnd>>
    /\ UNCHANGED <<deriveOthers, plain>>

\* CreateNewAccount, its call am.deriveAccountKey(dp): Seed() and the three
\* child keys; the seed and the account key stay on the heap
CallDeriveAccountKey ==
    /\ flight.op = "CreateNewAccount"
    /\ flight.pc = "deriveAccountKey"
    /\ IF Seed.err # "nil"
       THEN /\ ret' = [op |-> "CreateNewAccount", err |-> Seed.err]
            /\ flight' = NoFlight
            /\ UNCHANGED plain
       ELSE /\ flight' = [flight EXCEPT
                             !.pc = "Password",
                             !.work = <<DeriveAccountKey(Seed.pt, MaskSuffix(flight.arg[1]))>>]
            /\ plain' = LeftBehind({"seed", "accountKey"})
            /\ UNCHANGED ret
    /\ UNCHANGED <<rootFile, accountsFile, addrFiles, rootWallet, isUnlocked, enclave,
                   isSealed, nextRnd>>
    /\ UNCHANGED deriveOthers

\* the pointers GetPasswordManager can return
Managers == {"first", "later", "nil"}

\* the call in progress has come to a security.Password()
AtPassword ==
    \/ flight.op = "DeriveAddress" /\ flight.pc = "deriveAddressKey"
    \/ flight.op \in {"CreateNewAccount", "DeriveAddress"} /\ flight.pc = "Password"

\* security.Password() of the call in progress, its once.Do: the read of
\* done; with once done the function is skipped, otherwise the slow path is
\* taken
CallOnceDo ==
    /\ AtPassword
    /\ flight.pm = "none"
    /\ flight' = [flight EXCEPT !.pm = IF once.done THEN "return" ELSE "Lock"]
    /\ UNCHANGED singletonVars
    /\ UNCHANGED walletVars
    /\ UNCHANGED <<replOthers, plain>>

\* once.Do of the call in progress, its slow path: once.m.Lock(), which
\* waits while another goroutine holds the mutex
CallOnceDoSlow ==
    /\ AtPassword
    /\ flight.pm = "Lock"
    /\ ~once.m
    /\ once' = [once EXCEPT !.m = TRUE]
    /\ flight' = [flight EXCEPT !.pm = "Do"]
    /\ UNCHANGED <<instance, resetCall, pwCall>>
    /\ UNCHANGED walletVars
    /\ UNCHANGED <<replOthers, plain>>

\* once.Do of the call in progress, its slow path under the mutex: unless
\* done has been stored meanwhile the function makes a manager and done is
\* stored; then once.m is unlocked, and unlocking the mutex of a once
\* assigned anew ends the process
CallOnceFunc ==
    /\ AtPassword
    /\ flight.pm = "Do"
    /\ instance' = IF once.done THEN instance ELSE "later"
    /\ once' = DoneOnce
    /\ IF once.m
       THEN /\ flight' = [flight EXCEPT !.pm = "return"]
            /\ UNCHANGED ret
       ELSE /\ flight' = [flight EXCEPT !.pc = "stopped"]
            /\ ret' = [op |-> flight.op, err |-> "fatal"]
    /\ UNCHANGED <<resetCall, pwCall>>
    /\ UNCHANGED <<rootFile, accountsFile, addrFiles, rootWallet, isUnlocked, enclave,
                   isSealed, nextRnd>>
    /\ UNCHANGED <<replOthers, plain>>

\* GetPasswordManager of the call in progress, its return instance: the read
\* is not synchronised with the assignment instance = nil of a reset in
\* progress, so it sees the pointer after it or the one before it
CallGetPasswordManager ==
    /\ AtPassword
    /\ flight.pm = "return"
    /\ \E pm \in {instance} \cup (IF resetCall.pc = "once" THEN {resetCall.old} ELSE {}) :
          flight' = [flight EXCEPT !.pm = pm]
    /\ UNCHANGED singletonVars
    /\ UNCHANGED walletVars
    /\ UNCHANGED <<replOthers, plain>>

\* security.Password() of the call in progress, its GetPassword() on the
\* pointer GetPasswordManager returned
FlightPassword == GetPasswordOf(flight.pm)

\* the CoinAccount CreateNewAccount builds from the account key, sealed with
\* the password security.Password() has just returned
NewAccount(derivationPath, accountKey) ==
    LET dp == MaskSuffix(derivationPath)
    IN [ID |-> IDString(PathString(dp)),
        CoinSymbol |-> CoinSymbol(derivationPath.CoinType),
        DerivationPath |-> PathString(dp),
        EncryptedAccountPrivateKey |->
            EncryptData(accountKey, FlightPassword.password, nextRnd + 1)]

\* the account DeriveAddress works on: the first stored one with the id, or none
TargetAccount(accountID) ==
    LET i == FirstAccountIndex(LoadAllAccounts.accounts, accountID, 1)
    IN IF i = 0 THEN <<>> ELSE <<LoadAllAccounts.accounts[i]>>

\* DefaultAccountManager.deriveAddressKey
DeriveAddressKey(account, changeType, addressIndex) ==
    IF FlightPassword.err # "nil" THEN [err |-> FlightPassword.err, key |-> <<>>]
    ELSE LET opened == DecryptData(account.EncryptedAccountPrivateKey, FlightPassword.password)
         IN IF opened.err # "nil" THEN [err |-> opened.err, key |-> <<>>]
            ELSE [err |-> "nil",
                  key |-> <<NewChildKey(NewChildKey(opened.pt, changeType), addressIndex)>>]

\* the AddressKey DeriveAddress builds for the account it found from the
\* address key, sealed with the password security.Password() has just returned
NewAddress(accountID, account, changeType, addressIndex, addressKey) ==
    LET generated == GenerateAddress(CoinTypeOf(account), addressKey)
    IN [AccountID |-> accountID, ChangeType |-> changeType, AddressIndex |-> addressIndex,
        EncryptedPrivateKey |-> EncryptData(addressKey, FlightPassword.password, nextRnd + 1),
        PublicKey |-> generated.publicKey, Address |-> generated.address,
        CoinSymbol |-> CoinSymbol(CoinTypeOf(account))]

\* DefaultAccountManager.DeriveAddress up to its call of LoadAccounts: the
\* lock check
DeriveAddress(accountID, changeType, addressIndex) ==
    /\ flight = NoFlight
    /\ IF DerivationRefused
       THEN /\ ret' = [op |-> "DeriveAddress", err |-> "ErrWalletLocked"]
            /\ UNCHANGED flight
       ELSE /\ nextRnd + 1 <= MaxRnd
            /\ flight' = [NoFlight EXCEPT !.pc = "LoadAccounts", !.op = "DeriveAddress",
                                           !.arg = <<accountID, changeType, addressIndex>>]
            /\ UNCHANGED ret
    /\ UNCHANGED <<rootFile, accountsFile, addrFiles, rootWallet, isUnlocked, enclave,
                   isSealed, nextRnd>>
    /\ UNCHANGED <<deriveOthers, plain>>

\* DeriveAddress, its call am.storage.LoadAccounts() and the search for the
\* account
CallLoadAccounts ==
    /\ flight.op = "DeriveAddress"
    /\ flight.pc = "LoadAccounts"
    /\ IF LoadAllAccounts.err # "nil"
       THEN /\ ret' = [op |-> "DeriveAddress", err |-> LoadAllAccounts.err]
            /\ flight' = NoFlight
       ELSE IF TargetAccount(flight.arg[1]) = <<>>
       THEN /\ ret' = [op |-> "DeriveAddress", err |-> "ErrAccountNotFound"]
            /\ flight' = NoFlight
       ELSE /\ flight' = [flight EXCEPT !.pc = "deriveAddressKey",
                                         !.work = TargetAccount(flight.arg[1])]
            /\ UNCHANGED ret
    /\ UNCHANGED <<rootFile, accountsFile, addrFiles, rootWallet, isUnlocked, enclave,
                   isSealed, nextRnd>>
    /\ UNCHANGED <<deriveOthers, plain>>

\* the plaintext buffers deriveAddressKey leaves on the heap: the copy of the
\* password, and the account key and the address key once the account key
\* has opened
DeriveAddressKeyPlain(account) ==
    IF FlightPassword.err # "nil" THEN {}
    ELSE IF DecryptData(account.EncryptedAccountPrivateKey, FlightPassword.password).err # "nil"
    THEN {"password"}
    ELSE {"password", "accountKey", "addressKey"}

\* DeriveAddress, its call am.deriveAddressKey from the GetPassword() of its
\* security.Password() on, and am.generateAddress; GetPassword() on a nil
\* pointer panics, nothing recovers, and the process ends
CallDeriveAddressKey ==
    /\ flight.op = "DeriveAddress"
    /\ flight.pc = "deriveAddressKey"
    /\ flight.pm \in Managers
    /\ LET account == flight.work[1]
           derived == DeriveAddressKey(account, flight.arg[2], flight.arg[3])
       IN IF flight.pm = "nil"
          THEN /\ ret' = [op |-> "DeriveAddress", err |-> "panic"]
               /\ flight' = [flight EXCEPT !.pc = "stopped"]
               /\ UNCHANGED plain
          ELSE /\ IF derived.err # "nil"
                  THEN /\ ret' = [op |-> "DeriveAddress", err |-> derived.err]
                       /\ flight' = NoFlight
                  ELSE IF GenerateAddress(CoinTypeOf(account), derived.key[1]).err # "nil"
                  THEN /\ ret' = [op |-> "DeriveAddress", err |-> "ErrGenerateAddress"]
                       /\ flight' = NoFlight
                  ELSE /\ flight' = [flight EXCEPT !.pc = "Password",
                                                    !.work = <<account, derived.key[1]>>,
                                                    !.pm = "none"]
                       /\ UNCHANGED ret
               /\ plain' = LeftBehind(DeriveAddressKeyPlain(account))
    /\ UNCHANGED <<rootFile, accountsFile, addrFiles, rootWallet, isUnlocked, enclave,
                   isSealed, nextRnd>>
    /\ UNCHANGED <<replOthers, singletonVars>>

\* the record a derivation seals: the account or the address
SealedRecord ==
    IF flight.op = "CreateNewAccount"
    THEN NewAccount(flight.arg[1], flight.work[1])
    ELSE NewAddress(flight.arg[1], flight.work[1], flight.arg[2], flight.arg[3], flight.work[2])

\* CreateNewAccount and DeriveAddress, the GetPassword() of their
\* security.Password() and their call crypto.EncryptData; the copy of the
\* password stays on the heap. GetPassword() on a nil pointer panics, nothing
\* recovers, and the process ends
CallPassword ==
    /\ flight.op \in {"CreateNewAccount", "DeriveAddress"}
    /\ flight.pc = "Password"
    /\ flight.pm \in Managers
    /\ IF flight.pm = "nil"
       THEN /\ ret' = [op |-> flight.op, err |-> "panic"]
            /\ flight' = [flight EXCEPT !.pc = "stopped"]
            /\ UNCHANGED <<nextRnd, plain>>
       ELSE IF FlightPassword.err # "nil"
       THEN /\ ret' = [op |-> flight.op, err |-> FlightPassword.err]
            /\ flight' = NoFlight
            /\ UNCHANGED <<nextRnd, plain>>
       ELSE /\ nextRnd + 1 <= MaxRnd
            /\ nextRnd' = nextRnd + 1
            /\ flight' = [flight EXCEPT !.pc = "Save", !.work = <<SealedRecord>>,
                                        !.pm = "none"]
            /\ plain' = LeftBehind({"password"})
            /\ UNCHANGED ret
    /\ UNCHANGED <<rootFile, accountsFile, addrFiles, rootWallet, isUnlocked, enclave, isSealed>>
    /\ UNCHANGED <<replOthers, singletonVars>>

\* CreateNewAccount, its call am.storage.SaveAccount(account), and the
\* return: the load that opens SaveAccount can fail, and so can saveToFile
CallSaveAccount(saved) ==
    /\ flight.op = "CreateNewAccount"
    /\ flight.pc = "Save"
    /\ IF LoadAllAccounts.err # "nil"
       THEN /\ ret' = [op |-> "CreateNewAccount", err |-> LoadAllAccounts.err]
            /\ UNCHANGED accountsFile
       ELSE IF ~saved
       THEN /\ ret' = [op |-> "CreateNewAccount", err |-> "ErrSaveFailed"]
            /\ UNCHANGED accountsFile
       ELSE /\ ret' = [op |-> "CreateNewAccount", err |-> "nil"]
            /\ accountsFile' = File(SavedAccounts(LoadAllAccounts.accounts, flight.work[1]))
    /\ flight' = NoFlight
    /\ UNCHANGED <<rootFile, addrFiles, rootWallet, isUnlocked, enclave, isSealed, nextRnd>>
    /\ UNCHANGED <<deriveOthers, plain>>

\* DeriveAddress, its call am.storage.SaveAddress(addressKeyObj), and the
\* return: the load that opens SaveAddress can fail, and so can saveToFile
CallSaveAddress(saved) ==
    /\ flight.op = "DeriveAddress"
    /\ flight.pc = "Save"
    /\ LET accountID == flight.work[1].AccountID
       IN IF LoadAddressList(accountID).err # "nil"
          THEN /\ ret' = [op |-> "DeriveAddress", err |-> LoadAddressList(accountID).err]
               /\ UNCHANGED addrFiles
          ELSE IF ~saved
          THEN /\ ret' = [op |-> "DeriveAddress", err |-> "ErrSaveFailed"]
               /\ UNCHANGED addrFiles
          ELSE /\ ret' = [op |-> "DeriveAddress", err |-> "nil"]
               /\ addrFiles' = [addrFiles EXCEPT ![accountID] =
                      File(SavedAddresses(LoadAddressList(accountID).addresses,
                                          flight.work[1]))]
    /\ flight' = NoFlight
    /\ UNCHANGED <<rootFile, accountsFile, rootWallet, isUnlocked, enclave, isSealed, nextRnd>>
    /\ UNCHANGED <<deriveOthers, plain>>

\* the coin types handed to GetAccountsByCoin (coin.CoinType(symbol, true))
CoinTypes == {Hardened(0), Hardened(60)}

\* DefaultAccountManager.GetAccountsByCoin
GetAccountsByCoin(coinType) ==
    IF IsLocked THEN [err |-> "ErrWalletLocked", accounts |-> <<>>]
    ELSE IF LoadAllAccounts.err # "nil" THEN [err |-> LoadAllAccounts.err, accounts |-> <<>>]
    ELSE LET OfCoin(account) == CoinTypeOf(account) = coinType
         IN [err |-> "nil", accounts |-> SelectSeq(LoadAllAccounts.accounts, OfCoin)]

\* DefaultAccountManager.GetAddresses
GetAddresses(accountID) == LoadAddressList(accountID)

\* a GetAccountsByCoin call up to its call of LoadAccounts: the lock check
\* under the wallet manager's lock, which is released before the store is read
CallGetAccountsByCoin(coinType) ==
    /\ listing = NoListing
    /\ IF IsLocked
       THEN /\ ret' = [op |-> "GetAccountsByCoin", err |-> "ErrWalletLocked"]
            /\ UNCHANGED listing
       ELSE /\ listing' = [pc |-> "LoadAccounts", arg |-> <<coinType>>]
            /\ UNCHANGED ret
    /\ UNCHANGED <<rootFile, accountsFile, addrFiles, rootWallet, isUnlocked,
                   enclave, isSealed, nextRnd>>
    /\ UNCHANGED listOthers

\* GetAccountsByCoin, its call am.storage.LoadAccounts() under the store's
\* mutex, the filter and the return; the error is kept in ret
CallGetAccountsByCoinLoad ==
    /\ listing.pc = "LoadAccounts"
    /\ ret' = [op |-> "GetAccountsByCoin", err |-> LoadAllAccounts.err]
    /\ listing' = NoListing
    /\ UNCHANGED <<rootFile, accountsFile, addrFiles, rootWallet, isUnlocked,
                   enclave, isSealed, nextRnd>>
    /\ UNCHANGED listOthers

\* a GetAddresses call, its error kept in ret
CallGetAddresses(accountID) ==
    /\ UNCHANGED auxVars
    /\ ret' = [op |-> "GetAddresses", err |-> GetAddresses(accountID).err]
    /\ UNCHANGED <<rootFile, accountsFile, addrFiles, rootWallet, isUnlocked,
                   enclave, isSealed, nextRnd>>

----------------------------------------------------------------------------
(* pkg/crypto: AESGCMService and ChaCha20Poly1305Service, byte by byte *)

\* the longest payload sealed in this model
MaxPayload == 2

\* the payloads: byte strings of at most MaxPayload bytes
Payloads == UNION {[1..n -> {1, 2}] : n \in 0..MaxPayload}

\* the draws of the CSPRNG for a salt and for a nonce
SaltDraws == {1, 2}
NonceDraws == {3}

Aeads == {"aes-gcm", "chacha20-poly1305"}
\* the KDFType constants handed to CreateService
Kdfs == {"scrypt", "argon2", "pbkdf2"}

\* the key of no cipher
NoKey == [kdf |-> "", pw |-> "", salt |-> <<>>]

\* len random bytes of draw r
RandomBytes(r, len) ==
    [i \in 1..len |-> [k |-> "rnd", alg |-> "", r |-> r, i |-> i,
                        key |-> NoKey, nonce |-> <<>>, pt |-> <<>>]]

\* ScryptKDF.DeriveKey
ScryptDeriveKey(password, salt) == [kdf |-> "scrypt", pw |-> password, salt |-> salt]

\* Argon2KDF.DeriveKey
Argon2DeriveKey(password, salt) == [kdf |-> "argon2", pw |-> password, salt |-> salt]

\* PBKDF2SHA256.DeriveKey: iterated SHA-256 of the password; the salt is not used
PBKDF2DeriveKey(password, salt) == [kdf |-> "pbkdf2", pw |-> password, salt |-> <<>>]

\* KDF.DeriveKey of the KDF that KDFFactory.CreateKDF makes for the type: scrypt
\* for every type that is not one of the three constants
KDFDeriveKey(kdf, password, salt) ==
    CASE kdf = "scrypt" -> ScryptDeriveKey(password, salt)
      [] kdf = "argon2" -> Argon2DeriveKey(password, salt)
      [] kdf = "pbkdf2" -> PBKDF2DeriveKey(password, salt)
      [] OTHER -> ScryptDeriveKey(password, salt)

\* getSaltLen: the SaltLen of the service's KDF
GetSaltLen(kdf) ==
    CASE kdf = "scrypt" -> 16
      [] kdf = "argon2" -> 16
      [] kdf = "pbkdf2" -> 16
      [] OTHER -> 16

\* the nonce size of cipher.NewGCM and of chacha20poly1305.New
NonceSize == 12
\* chacha20poly1305.NonceSizeX, the nonce size of XChaCha20-Poly1305
NonceSizeX == 24
\* the length of the authentication tag of both AEADs
TagSize == 16

\* AEAD.Seal(nil, nonce, plaintext, nil): the ciphertext and its tag
AeadSeal(alg, key, nonce, plaintext) ==
    [i \in 1..Len(plaintext) |-> [k |-> "ct", alg |-> alg, r |-> 0, i |-> i, key |-> key,
                                   nonce |-> nonce, pt |-> <<plaintext[i]>>]]
    \o [i \in 1..TagSize |-> [k |-> "tag", alg |-> alg, r |-> 0, i |-> i, key |-> key,
                               nonce |-> nonce, pt |-> plaintext]]

\* AEAD.Open(nil, nonce, data, nil): it panics on a nonce of another length,
\* and opens only what Seal made under the same key and nonce
AeadOpen(alg, key, nonce, data) ==
    IF Len(nonce) # NonceSize THEN [err |-> "panic", pt |-> <<>>]
    ELSE IF Len(data) < TagSize THEN [err |-> "ErrOpen", pt |-> <<>>]
    ELSE LET n == Len(data) - TagSize
             plaintext == [i \in 1..n |-> IF data[i].k = "ct" THEN data[i].pt[1] ELSE 0]
         IN IF data = AeadSeal(alg, key, nonce, plaintext)
            THEN [err |-> "nil", pt |-> plaintext]
            ELSE [err |-> "ErrOpen", pt |-> <<>>]

\* hex.EncodeToString: two digits for each byte
HexEncode(bytes) ==
    [j \in 1..(2 * Len(bytes)) |->
        [half |-> IF j % 2 = 1 THEN "hi" ELSE "lo", b |-> bytes[(j + 1) \div 2]]]

\* hex.DecodeString: the bytes of a string of whole pairs of digits
HexDecode(str) ==
    IF /\ Len(str) % 2 = 0
       /\ \A i \in 1..(Len(str) \div 2) :
             /\ str[2 * i - 1].half = "hi"
             /\ str[2 * i].half = "lo"
             /\ str[2 * i - 1].b = str[2 * i].b
    THEN [err |-> "nil", data |-> [i \in 1..(Len(str) \div 2) |-> str[2 * i].b]]
    ELSE [err |-> "ErrHex", data |-> <<>>]

\* AESGCMService.Encrypt: hex(salt + nonce + ciphertext and tag)
AESGCMEncrypt(kdf, plaintext, password, s, n) ==
    LET salt == RandomBytes(s, GetSaltLen(kdf))
        key == KDFDeriveKey(kdf, password, salt)
        nonce == RandomBytes(n, NonceSize)
        ciphertext == nonce \o AeadSeal("aes-gcm", key, nonce, plaintext)
    IN HexEncode(salt \o ciphertext)

\* AESGCMService.Decrypt
AESGCMDecrypt(kdf, encodedCiphertext, password) ==
    LET decoded == HexDecode(encodedCiphertext)
        data == decoded.data
        saltLen == GetSaltLen(kdf)
        salt == SubSeq(data, 1, saltLen)
        ciphertext == SubSeq(data, saltLen + 1, Len(data))
        key == KDFDeriveKey(kdf, password, salt)
        nonce == SubSeq(ciphertext, 1, NonceSize)
        opened == AeadOpen("aes-gcm", key, nonce,
                           SubSeq(ciphertext, NonceSize + 1, Len(ciphertext)))
    IN IF decoded.err # "nil" THEN [err |-> "ErrInvalidCiphertext", pt |-> <<>>]
       ELSE IF Len(data) < saltLen + NonceSize
            THEN [err |-> "ErrInvalidCiphertext", pt |-> <<>>]
       ELSE IF Len(ciphertext) < NonceSize
            THEN [err |-> "ErrInvalidCiphertext", pt |-> <<>>]
       ELSE IF opened.err = "ErrOpen" THEN [err |-> "ErrDecryptionFailed", pt |-> <<>>]
       ELSE opened

\* ChaCha20Poly1305Service.Encrypt: hex(salt + nonce + ciphertext and tag)
ChaCha20Poly1305Encrypt(kdf, plaintext, password, s, n) ==
    LET salt == RandomBytes(s, GetSaltLen(kdf))
        key == KDFDeriveKey(kdf, password, salt)
        nonce == RandomBytes(n, NonceSize)
        ciphertext == AeadSeal("chacha20-poly1305", key, nonce, plaintext)
    IN HexEncode((salt \o nonce) \o ciphertext)

\* ChaCha20Poly1305Service.Decrypt: it cuts a nonce of NonceSizeX bytes and
\* hands it to the AEAD of chacha20poly1305.New
ChaCha20Poly1305Decrypt(kdf, encodedCiphertext, password) ==
    LET decoded == HexDecode(encodedCiphertext)
        data == decoded.data
        saltLen == GetSaltLen(kdf)
        nonceSize == NonceSizeX
        salt == SubSeq(data, 1, saltLen)
        nonce == SubSeq(data, saltLen + 1, saltLen + nonceSize)
        ciphertext == SubSeq(data, saltLen + nonceSize + 1, Len(data))
        key == KDFDeriveKey(kdf, password, salt)
        opened == AeadOpen("chacha20-poly1305", key, nonce, ciphertext)
    IN IF decoded.err # "nil" THEN [err |-> "ErrInvalidCiphertext", pt |-> <<>>]
       ELSE IF Len(data) < saltLen + nonceSize
            THEN [err |-> "ErrInvalidCiphertext", pt |-> <<>>]
       ELSE IF opened.err = "ErrOpen" THEN [err |-> "ErrDecryptionFailed", pt |-> <<>>]
       ELSE opened

\* CryptoService.Encrypt of the service made by CreateService(aead, kdf)
ServiceEncrypt(svc, plaintext, password, s, n) ==
    IF svc.aead = "aes-gcm" THEN AESGCMEncrypt(svc.kdf, plaintext, password, s, n)
    ELSE ChaCha20Poly1305Encrypt(svc.kdf, plaintext, password, s, n)

\* CryptoService.Decrypt of the service made by CreateService(aead, kdf)
ServiceDecrypt(svc, encodedCiphertext, password) ==
    IF svc.aead = "aes-gcm" THEN AESGCMDecrypt(svc.kdf, encodedCiphertext, password)
    ELSE ChaCha20Poly1305Decrypt(svc.kdf, encodedCiphertext, password)

\* the ways a caller alters a blob before Decrypt: not at all, cut down to
\* its salt, cut by one digit, one byte of the tag changed, one digit
\* replaced by a character that is no hex digit
Cuts == {"whole", "salt", "odd", "flip", "nonhex"}

\* the bytes with the last one replaced by another byte
LastByteChanged(bytes) ==
    [bytes EXCEPT ![Len(bytes)] = [@ EXCEPT !.k = "changed"]]

\* what a caller hands to Decrypt
CutBlob(blob, cut) ==
    CASE cut = "whole" -> blob
      [] cut = "salt" -> SubSeq(blob, 1, 2 * GetSaltLen(envSvc.kdf))
      [] cut = "flip" -> HexEncode(LastByteChanged(HexDecode(blob).data))
      [] cut = "nonhex" -> [blob EXCEPT ![1] = [@ EXCEPT !.half = "x"]]
      [] OTHER -> SubSeq(blob, 1, Len(blob) - 1)

\* a call of Encrypt(envPlain, envPw)
EnvEncrypt(s, n) ==
    /\ envBlob = <<>>
    /\ envBlob' = ServiceEncrypt(envSvc, envPlain, envPw, s, n)
    /\ UNCHANGED <<envSvc, envPlain, envPw, envIn, envOpenPw, envOut, walletVars, saveVars,
                   createVars, catalogVars, moreVars>>

\* a call of Decrypt on what Encrypt returned
EnvDecrypt(cut, password) ==
    /\ envBlob # <<>>
    /\ envIn' = cut
    /\ envOpenPw' = password
    /\ envOut' = ServiceDecrypt(envSvc, CutBlob(envBlob, cut), password)
    /\ UNCHANGED <<envSvc, envPlain, envPw, envBlob, walletVars, saveVars,
                   createVars, catalogVars, moreVars>>

\* SetGlobalCryptoService(CreateService(aead, kdf)): the process-wide service
\* that EncryptData and DecryptData use is replaced
SetGlobalCryptoService(svc) ==
    /\ envSvc' = svc
    /\ UNCHANGED <<envPlain, envPw, envBlob, envIn, envOpenPw, envOut, walletVars, saveVars,
                   createVars, catalogVars, moreVars>>

\* the default service, before any call
EnvIdle ==
    /\ envBlob = <<>>
    /\ envIn = "none"
    /\ envOpenPw = ""
    /\ envOut = [err |-> "none", pt |-> <<>>]

----------------------------------------------------------------------------
(* FileStorage.saveToFile, step by step, against a disk of token sequences *)

\* the longest value a saveToFile of this model writes
MaxDocLen == 2

\* the values written: sequences of at most MaxDocLen items
Docs == UNION {[1..n -> {"a", "b"}] : n \in 0..MaxDocLen}

\* json.Encoder.Encode: the document and the newline that ends it
Encode(v) == <<"[">> \o v \o <<"]", "\n">>

\* json.Decoder.Decode: the first value of the stream, read up to the bracket
\* that closes it; what follows the value is not read.  An error when the
\* stream ends before the value does.
Decode(tokens) ==
    IF /\ Len(tokens) >= 2
       /\ tokens[1] = "["
       /\ \E k \in 2..Len(tokens) :
             /\ tokens[k] = "]"
             /\ \A i \in 2..(k - 1) : tokens[i] \in {"a", "b"}
    THEN LET k == CHOOSE j \in 2..Len(tokens) :
                      tokens[j] = "]" /\ \A i \in 2..(j - 1) : tokens[i] \in {"a", "b"}
         IN [err |-> "nil", v |-> SubSeq(tokens, 2, k - 1)]
    ELSE [err |-> "ErrDecode", v |-> <<>>]

\* a file on disk and its content
DiskFile(tokens) == [st |-> "ok", data |-> tokens]

\* the file every saveToFile of this model is asked to write
WalletFile == <<"root_wallet.json">>

\* saveToFile with no temporary file: it writes to the file itself
TempFileIsTarget(filename) == filename

\* saveToFile: tempFile := filename + ".tmp"
TempFile(filename) == filename \o <<".tmp">>

\* FileStorage.loadFromFile
LoadFromFile(filename) ==
    IF fsFiles[filename].st = "missing" THEN [err |-> "ErrNotExist", v |-> <<>>]
    ELSE Decode(fsFiles[filename].data)

\* a call of saveToFile(WalletFile, data)
SaveToFile(data) ==
    /\ savePc = "idle"
    /\ savePc' = "create"
    /\ saveData' = data
    /\ saveRet' = "running"
    /\ UNCHANGED <<fsFiles, saveOthers>>

\* os.Create(tempFile): the file is created or truncated, or the call fails
CreateTemp(ok) ==
    /\ savePc = "create"
    /\ IF ok
       THEN /\ fsFiles' = [fsFiles EXCEPT ![TempFile(WalletFile)] = DiskFile(<<>>)]
            /\ savePc' = "encode"
            /\ UNCHANGED saveRet
       ELSE /\ savePc' = "idle"
            /\ saveRet' = "ErrCreate"
            /\ UNCHANGED fsFiles
    /\ UNCHANGED <<saveData, saveOthers>>

\* encoder.Encode(data): one write of the document to the temporary file; a
\* failed write leaves the first n tokens of it
EncodeData(n, ok) ==
    /\ savePc = "encode"
    /\ n \in 0..Len(Encode(saveData))
    /\ IF ok
       THEN /\ n = Len(Encode(saveData))
            /\ savePc' = "sync"
            /\ UNCHANGED saveRet
       ELSE /\ n < Len(Encode(saveData))
            /\ savePc' = "idle"
            /\ saveRet' = "ErrEncode"
    /\ fsFiles' = [fsFiles EXCEPT ![TempFile(WalletFile)] =
                      DiskFile(SubSeq(Encode(saveData), 1, n))]
    /\ UNCHANGED <<saveData, saveOthers>>

\* file.Sync()
SyncTemp(ok) ==
    /\ savePc = "sync"
    /\ IF ok
       THEN savePc' = "rename" /\ UNCHANGED saveRet
       ELSE savePc' = "idle" /\ saveRet' = "ErrSync"
    /\ UNCHANGED <<fsFiles, saveData, saveOthers>>

\* the disk after os.Rename(from, to)
Renamed(from, to) ==
    IF from = to THEN fsFiles
    ELSE [fsFiles EXCEPT ![to] = fsFiles[from], ![from] = NoFile]

\* os.Rename(tempFile, filename), and the return that follows it
RenameTemp(ok) ==
    /\ savePc = "rename"
    /\ savePc' = "idle"
    /\ IF ok
       THEN /\ fsFiles' = Renamed(TempFile(WalletFile), WalletFile)
            /\ saveRet' = "nil"
       ELSE /\ saveRet' = "ErrRename"
            /\ UNCHANGED fsFiles
    /\ UNCHANGED <<saveData, saveOthers>>

\* the process stops in the middle of saveToFile; a write under way leaves
\* the first n tokens of the document
Crash(n) ==
    /\ savePc # "idle"
    /\ savePc' = "idle"
    /\ saveRet' = "stopped"
    /\ IF savePc = "encode"
       THEN /\ n <= Len(Encode(saveData))
            /\ fsFiles' = [fsFiles EXCEPT ![TempFile(WalletFile)] =
                              DiskFile(SubSeq(Encode(saveData), 1, n))]
       ELSE /\ n = 0
            /\ UNCHANGED fsFiles
    /\ UNCHANGED <<saveData, saveOthers>>

\* no saveToFile has run in this process
SaveIdle ==
    /\ savePc = "idle"
    /\ saveData = <<>>
    /\ saveRet = "none"

----------------------------------------------------------------------------
(* DefaultWalletManager.CreateNewWallet, step by step, called by goroutines *)

\* the number of goroutines that call CreateNewWallet
NumProcs == 3

Procs == 1..NumProcs

\* what the steps of CreateNewWallet leave alone, besides the wallet's files
\* and fields each of them names
createOthers == <<accountsFile, addrFiles, isUnlocked, enclave, isSealed, ret, saveVars, envVars,
                  catalogVars, moreVars>>

\* a goroutine calls CreateNewWallet(password)
CallCreate(p, password) ==
    /\ cpc[p] = "idle"
    /\ cpc' = [cpc EXCEPT ![p] = "lock"]
    /\ cpw' = [cpw EXCEPT ![p] = password]
    /\ UNCHANGED <<mutex, cwallet, cret, rootFile, rootWallet, nextRnd, createOthers>>

\* wm.mutex.Lock() without the wait
MutexLockNoWait(p) ==
    /\ cpc[p] = "lock"
    /\ mutex' = p
    /\ cpc' = [cpc EXCEPT ![p] = "check"]
    /\ UNCHANGED <<cpw, cwallet, cret, rootFile, rootWallet, nextRnd, createOthers>>

\* wm.mutex.Lock()
MutexLock(p) ==
    /\ cpc[p] = "lock"
    /\ mutex = 0
    /\ mutex' = p
    /\ cpc' = [cpc EXCEPT ![p] = "check"]
    /\ UNCHANGED <<cpw, cwallet, cret, rootFile, rootWallet, nextRnd, createOthers>>

\* the check for a stored wallet: LoadRootWallet, its error, its wallet
CheckExisting(p) ==
    /\ cpc[p] = "check"
    /\ IF LoadRootWallet.err # "nil"
       THEN /\ cret' = [cret EXCEPT ![p] = "ErrCheckExisting"]
            /\ cpc' = [cpc EXCEPT ![p] = "unlock"]
       ELSE IF LoadRootWallet.wallet # Nil
       THEN /\ cret' = [cret EXCEPT ![p] = "ErrWalletExists"]
            /\ cpc' = [cpc EXCEPT ![p] = "unlock"]
       ELSE /\ cpc' = [cpc EXCEPT ![p] = "seal"]
            /\ UNCHANGED cret
    /\ UNCHANGED <<mutex, cpw, cwallet, rootFile, rootWallet, nextRnd, createOthers>>

\* the mnemonic, the seed and the two EncryptData calls
SealWallet(p, mnemonic, t) ==
    /\ cpc[p] = "seal"
    /\ nextRnd + 2 <= MaxRnd
    /\ nextRnd' = nextRnd + 2
    /\ cwallet' = [cwallet EXCEPT ![p] = <<NewRootWallet(mnemonic, cpw[p], t)>>]
    /\ cpc' = [cpc EXCEPT ![p] = "save"]
    /\ UNCHANGED <<mutex, cpw, cret, rootFile, rootWallet, createOthers>>

\* wm.storage.SaveRootWallet(wallet)
SaveWallet(p, saved) ==
    /\ cpc[p] = "save"
    /\ IF saved
       THEN /\ rootFile' = File(cwallet[p][1])
            /\ cpc' = [cpc EXCEPT ![p] = "set"]
            /\ UNCHANGED cret
       ELSE /\ cret' = [cret EXCEPT ![p] = "ErrSaveFailed"]
            /\ cpc' = [cpc EXCEPT ![p] = "unlock"]
            /\ UNCHANGED rootFile
    /\ UNCHANGED <<mutex, cpw, cwallet, rootWallet, nextRnd, createOthers>>

\* wm.rootWallet = wallet; return wallet, nil
SetRootWallet(p) ==
    /\ cpc[p] = "set"
    /\ rootWallet' = cwallet[p]
    /\ cret' = [cret EXCEPT ![p] = "nil"]
    /\ cpc' = [cpc EXCEPT ![p] = "unlock"]
    /\ UNCHANGED <<mutex, cpw, cwallet, rootFile, nextRnd, createOthers>>

\* the deferred wm.mutex.Unlock(), and the return
MutexUnlock(p) ==
    /\ cpc[p] = "unlock"
    /\ mutex' = 0
    /\ cpc' = [cpc EXCEPT ![p] = "done"]
    /\ UNCHANGED <<cpw, cwallet, cret, rootFile, rootWallet, nextRnd, createOthers>>

\* no goroutine has called CreateNewWallet
CreateIdle ==
    /\ mutex = 0
    /\ cpc = [p \in Procs |-> "idle"]
    /\ cpw = [p \in Procs |-> ""]
    /\ cwallet = [p \in Procs |-> Nil]
    /\ cret = [p \in Procs |-> "none"]

----------------------------------------------------------------------------
(* FileStorage called by goroutines: SaveAccount, SaveAddress, LoadAccounts, *)
(* LoadAddresses and LoadRootWallet, step by step                            *)

\* the number of goroutines that call the store
NumCallers == 2

Callers == 1..NumCallers

\* a file that exists and does not hold JSON
CorruptFile == [st |-> "corrupt", data |-> <<>>]

\* the accounts handed to SaveAccount: one for each id
StoreAccounts ==
    {[ID |-> IDString(PathString(MaskSuffix(dp))),
      CoinSymbol |-> CoinSymbol(dp.CoinType),
      DerivationPath |-> PathString(MaskSuffix(dp)),
      EncryptedAccountPrivateKey |-> EncryptData(<<"key">>, "pw1", 1)] :
        dp \in {q \in Paths : q.CoinType.h /\ CoinSymbol(q.CoinType) # ""}}

\* the account whose addresses are saved and loaded
StoreAddressIds == {id \in AccountIds : id[2].coin = 0}

\* the addresses handed to SaveAddress: one for each change type and index
StoreAddresses ==
    {[AccountID |-> id, ChangeType |-> c, AddressIndex |-> i,
      EncryptedPrivateKey |-> EncryptData(<<"key">>, "pw1", 1),
      PublicKey |-> <<"pub">>, Address |-> <<"addr">>, CoinSymbol |-> "BTC"] :
        id \in StoreAddressIds, c \in ChangeTypes, i \in AddressIndexes}

\* the operations that take fs.mutex.Lock(); the others take RLock()
StoreWrites == {"SaveAccount", "SaveAddress"}

\* the file an operation of the store works on
StoreFile(job) ==
    CASE job.op \in {"SaveAccount", "LoadAccounts"} -> accountsFile
      [] job.op = "SaveAddress" -> addrFiles[job.arg[1].AccountID]
      [] job.op = "LoadAddresses" -> addrFiles[job.arg[1]]
      [] OTHER -> rootFile

\* whether two calls write the record of one key
SameKey(a, b) ==
    /\ a.op = b.op
    /\ a.op \in StoreWrites
    /\ IF a.op = "SaveAccount" THEN a.arg[1].ID = b.arg[1].ID
       ELSE FirstAddressIndex(a.arg, b.arg[1], 1) > 0

\* loadFromFile that takes a file it cannot decode for a missing one
LoadStoreFileRecovers(file) ==
    IF file.st = "ok" THEN [err |-> "nil", v |-> file.data[1]]
    ELSE [err |-> "ErrNotExist", v |-> <<>>]

\* FileStorage.loadFromFile on a file of the store
LoadStoreFile(file) ==
    CASE file.st = "missing" -> [err |-> "ErrNotExist", v |-> <<>>]
      [] file.st = "corrupt" -> [err |-> "ErrDecode", v |-> <<>>]
      [] OTHER -> [err |-> "nil", v |-> file.data[1]]

\* what the steps of the store leave alone, besides the files, the mutex and
\* the fields of the calls each of them names
catalogOthers == <<rootWallet, isUnlocked, enclave, isSealed, nextRnd, ret,
                   saveVars, createVars, envVars, moreVars>>

\* a goroutine calls an operation of the store; two running writes never
\* have the same key
StoreCall(p, op, arg) ==
    /\ kpc[p] = "idle"
    /\ \A q \in Callers \ {p} : ~SameKey(kjob[q], [op |-> op, arg |-> arg])
    /\ kjob' = [kjob EXCEPT ![p] = [op |-> op, arg |-> arg]]
    /\ kpc' = [kpc EXCEPT ![p] = "lock"]
    /\ UNCHANGED <<fsMutex, kloaded, kret, rootFile, accountsFile, addrFiles, catalogOthers>>

\* fs.mutex.Lock() without the wait
StoreLockNoWait(p) ==
    /\ kpc[p] = "lock"
    /\ kjob[p].op \in StoreWrites
    /\ fsMutex' = [fsMutex EXCEPT !.w = p]
    /\ kpc' = [kpc EXCEPT ![p] = "load"]
    /\ UNCHANGED <<kjob, kloaded, kret, rootFile, accountsFile, addrFiles, catalogOthers>>

\* fs.mutex.Lock()
StoreLock(p) ==
    /\ kpc[p] = "lock"
    /\ kjob[p].op \in StoreWrites
    /\ fsMutex.w = 0
    /\ fsMutex.r = {}
    /\ fsMutex' = [fsMutex EXCEPT !.w = p]
    /\ kpc' = [kpc EXCEPT ![p] = "load"]
    /\ UNCHANGED <<kjob, kloaded, kret, rootFile, accountsFile, addrFiles, catalogOthers>>

\* fs.mutex.RLock()
StoreRLock(p) ==
    /\ kpc[p] = "lock"
    /\ kjob[p].op \notin StoreWrites
    /\ fsMutex.w = 0
    /\ fsMutex' = [fsMutex EXCEPT !.r = @ \cup {p}]
    /\ kpc' = [kpc EXCEPT ![p] = "load"]
    /\ UNCHANGED <<kjob, kloaded, kret, rootFile, accountsFile, addrFiles, catalogOthers>>

\* the load of the file: an error other than a missing file ends the call, a
\* missing file is the empty list (no wallet for LoadRootWallet)
StoreLoad(p) ==
    /\ kpc[p] = "load"
    /\ LET got == LoadStoreFile(StoreFile(kjob[p]))
       IN IF got.err \notin {"nil", "ErrNotExist"}
          THEN /\ kret' = [kret EXCEPT ![p] = got.err]
               /\ kpc' = [kpc EXCEPT ![p] = "unlock"]
               /\ UNCHANGED kloaded
          ELSE IF kjob[p].op \in StoreWrites
          THEN /\ kloaded' = [kloaded EXCEPT ![p] = got.v]
               /\ kpc' = [kpc EXCEPT ![p] = "save"]
               /\ UNCHANGED kret
          ELSE /\ kloaded' = [kloaded EXCEPT ![p] =
                    IF kjob[p].op = "LoadRootWallet" /\ got.err = "nil"
                    THEN <<got.v>> ELSE got.v]
               /\ kret' = [kret EXCEPT ![p] = "nil"]
               /\ kpc' = [kpc EXCEPT ![p] = "unlock"]
    /\ UNCHANGED <<fsMutex, kjob, rootFile, accountsFile, addrFiles, catalogOthers>>

\* the update of the loaded list and fs.saveToFile
StoreSave(p, saved) ==
    /\ kpc[p] = "save"
    /\ IF ~saved
       THEN /\ kret' = [kret EXCEPT ![p] = "ErrSaveFailed"]
            /\ UNCHANGED <<accountsFile, addrFiles>>
       ELSE /\ kret' = [kret EXCEPT ![p] = "nil"]
            /\ IF kjob[p].op = "SaveAccount"
               THEN /\ accountsFile' = File(SavedAccounts(kloaded[p], kjob[p].arg[1]))
                    /\ UNCHANGED addrFiles
               ELSE /\ addrFiles' = [addrFiles EXCEPT ![kjob[p].arg[1].AccountID] =
                           File(SavedAddresses(kloaded[p], kjob[p].arg[1]))]
                    /\ UNCHANGED accountsFile
    /\ kpc' = [kpc EXCEPT ![p] = "unlock"]
    /\ UNCHANGED <<fsMutex, kjob, kloaded, rootFile, catalogOthers>>

\* the deferred fs.mutex.Unlock() or RUnlock(), and the return
StoreUnlock(p) ==
    /\ kpc[p] = "unlock"
    /\ fsMutex' = [w |-> IF fsMutex.w = p THEN 0 ELSE fsMutex.w, r |-> fsMutex.r \ {p}]
    /\ kpc' = [kpc EXCEPT ![p] = "done"]
    /\ UNCHANGED <<kjob, kloaded, kret, rootFile, accountsFile, addrFiles, catalogOthers>>

\* no goroutine has called the store
CatalogIdle ==
    /\ fsMutex = [w |-> 0, r |-> {}]
    /\ kpc = [p \in Callers |-> "idle"]
    /\ kjob = [p \in Callers |-> [op |-> "none", arg |-> <<>>]]
    /\ kloaded = [p \in Callers |-> <<>>]
    /\ kret = [p \in Callers |-> "none"]

----------------------------------------------------------------------------
(* The mnemonic services: BIP39MnemonicService.GenerateMnemonic            *)
(* (pkg/mnemonic) and keyService.EntropyToMnemonic / MnemonicToEntropy.    *)
(* A byte is a number in 0..255, a bit string a sequence of 0 and 1, a     *)
(* mnemonic the sequence of the word list indexes of its words.            *)

\* the value every byte of an entropy of this model has
FillBytes == {0, 1, 2, 3, 85, 128, 170, 255}

\* n bytes of value b
Fill(n, b) == [i \in 1..n |-> b]

\* sha256.Sum256(data)[0], for the entropies of this model: the first byte
\* of the SHA-256 of Len(data) bytes of value data[1]
Sha256Table ==
    (<<16, 0>> :> 55 @@
     <<16, 1>> :> 204 @@
     <<16, 2>> :> 41 @@
     <<16, 3>> :> 99 @@
     <<16, 85>> :> 177 @@
     <<16, 128>> :> 78 @@
     <<16, 170>> :> 188 @@
     <<16, 255>> :> 90 @@
     <<20, 0>> :> 222 @@
     <<20, 1>> :> 155 @@
     <<20, 2>> :> 188 @@
     <<20, 3>> :> 89 @@
     <<20, 85>> :> 54 @@
     <<20, 128>> :> 94 @@
     <<20, 170>> :> 117 @@
     <<20, 255>> :> 154 @@
     <<24, 0>> :> 157 @@
     <<24, 1>> :> 91 @@
     <<24, 2>> :> 53 @@
     <<24, 3>> :> 37 @@
     <<24, 85>> :> 126 @@
     <<24, 128>> :> 240 @@
     <<24, 170>> :> 167 @@
     <<24, 255>> :> 68 @@
     <<28, 0>> :> 58 @@
     <<28, 1>> :> 34 @@
     <<28, 2>> :> 55 @@
     <<28, 3>> :> 192 @@
     <<28, 85>> :> 76 @@
     <<28, 128>> :> 164 @@
     <<28, 170>> :> 231 @@
     <<28, 255>> :> 50 @@
     <<32, 0>> :> 102 @@
     <<32, 1>> :> 114 @@
     <<32, 2>> :> 117 @@
     <<32, 3>> :> 100 @@
     <<32, 85>> :> 132 @@
     <<32, 128>> :> 189 @@
     <<32, 170>> :> 224 @@
     <<32, 255>> :> 175)

Sha256Byte0(data) ==
    IF Len(data) > 0 /\ <<Len(data), data[1]>> \in DOMAIN Sha256Table /\ data = Fill(Len(data), data[1])
    THEN Sha256Table[<<Len(data), data[1]>>]
    ELSE 0

\* b >> k and 1 << k on a byte
ShiftRight(b, k) == b \div (2 ^ k)

\* bytesToBits: the most significant bit of each byte first
BytesToBits(data) ==
    [i \in 1..(8 * Len(data)) |-> ShiftRight(data[((i - 1) \div 8) + 1], 7 - ((i - 1) % 8)) % 2]

\* bitsToInt: the first bit is the most significant
RECURSIVE BitsToInt(_)
BitsToInt(bits) ==
    IF bits = <<>> THEN 0
    ELSE 2 * BitsToInt(SubSeq(bits, 1, Len(bits) - 1)) + bits[Len(bits)]

\* bitsToBytes: the bits fill each byte from its most significant bit, the
\* last byte is padded with zeros
BitsToBytes(bits) ==
    [k \in 1..((Len(bits) + 7) \div 8) |->
        BitsToInt([j \in 1..8 |-> IF 8 * (k - 1) + j <= Len(bits) THEN bits[8 * (k - 1) + j] ELSE 0])]

\* the 11 bits of a word index, the most significant first
IndexBits(idx) == [j \in 1..11 |-> ShiftRight(idx, 11 - j) % 2]

\* the bits of a mnemonic: the 11 bits of each of its words in turn
WordsBits(words) == [i \in 1..(11 * Len(words)) |-> IndexBits(words[((i - 1) \div 11) + 1])[((i - 1) % 11) + 1]]

\* BIP39MnemonicService.calculateChecksum
CalculateChecksum(entropy) == ShiftRight(Sha256Byte0(entropy), 8 - ((Len(entropy) * 8) \div 32))

\* BIP39MnemonicService.entropyToMnemonic: a word for every whole group of 11 bits
EntropyToMnemonicWords(entropy) ==
    [k \in 1..((8 * Len(entropy)) \div 11) |->
        BitsToInt(SubSeq(BytesToBits(entropy), 11 * (k - 1) + 1, 11 * k))]

\* BIP39MnemonicService.GenerateMnemonic, with the entropy bip39.NewEntropy drew
GenerateMnemonic(strength, entropy) ==
    IF strength % 32 # 0 \/ strength < 128 \/ strength > 256
    THEN [by |-> "GenerateMnemonic", err |-> "ErrStrength", words |-> <<>>]
    ELSE [by |-> "GenerateMnemonic", err |-> "nil",
          words |-> EntropyToMnemonicWords(Append(entropy, CalculateChecksum(entropy)))]

\* the number of words of keyService's english word list
WordListLen == 16

\* the word indexes keyService.EntropyToMnemonic computes
EntropyToMnemonicIndexes(entropy) ==
    LET entropyBits == Len(entropy) * 8
        checksumBits == entropyBits \div 32
        checksum == ShiftRight(Sha256Byte0(entropy), 8 - checksumBits)
        bits == BytesToBits(Append(entropy, checksum))
        totalBits == entropyBits + checksumBits
    IN [k \in 1..((totalBits + 10) \div 11) |->
          BitsToInt(SubSeq(bits, 11 * (k - 1) + 1,
                           IF 11 * k > Len(bits) THEN Len(bits) ELSE 11 * k))]

\* keyService.EntropyToMnemonic
EntropyToMnemonic(entropy) ==
    IF Len(entropy) < 16 \/ Len(entropy) > 32 \/ Len(entropy) % 4 # 0
    THEN [by |-> "EntropyToMnemonic", err |-> "ErrEntropyLength", words |-> <<>>]
    ELSE LET indexes == EntropyToMnemonicIndexes(entropy)
         IN IF \E k \in 1..Len(indexes) : indexes[k] >= WordListLen
            THEN [by |-> "EntropyToMnemonic", err |-> "ErrWordIndex", words |-> <<>>]
            ELSE [by |-> "EntropyToMnemonic", err |-> "nil", words |-> indexes]

\* keyService.MnemonicToEntropy
MnemonicToEntropy(words) ==
    IF Len(words) < 12 THEN [err |-> "ErrTooShort", entropy |-> <<>>]
    ELSE IF \E k \in 1..Len(words) : words[k] >= WordListLen
    THEN [err |-> "ErrUnknownWord", entropy |-> <<>>]
    ELSE LET totalBits == Len(words) * 11
             checksumBits == totalBits \div 33
             entropyBits == totalBits - checksumBits
             bits == WordsBits(words)
             entropyBytes == BitsToBytes(SubSeq(bits, 1, entropyBits))
             actualChecksum ==
                 ShiftRight(BitsToBytes(SubSeq(bits, entropyBits + 1, totalBits))[1], 8 - checksumBits)
             expectedChecksum == ShiftRight(Sha256Byte0(entropyBytes), 8 - checksumBits)
         IN IF actualChecksum # expectedChecksum
            THEN [err |-> "ErrChecksum", entropy |-> <<>>]
            ELSE [err |-> "nil", entropy |-> entropyBytes]

\* what the mnemonic services leave alone
mnOthers == <<walletVars, saveVars, createVars, envVars, catalogVars, pathVars, heapVars, flightVars,
              singletonVars, listVars, termVars, repoVars>>

\* a call of BIP39MnemonicService.GenerateMnemonic
CallGenerateMnemonic(strength, b) ==
    /\ mnEntropy' = IF GenerateMnemonic(strength, Fill(strength \div 8, b)).err = "nil"
                    THEN Fill(strength \div 8, b) ELSE <<>>
    /\ mnWords' = GenerateMnemonic(strength, Fill(strength \div 8, b))
    /\ mnBack' = [err |-> "none", entropy |-> <<>>]
    /\ UNCHANGED mnOthers

\* a call of keyService.EntropyToMnemonic
CallEntropyToMnemonic(n, b) ==
    /\ mnEntropy' = Fill(n, b)
    /\ mnWords' = EntropyToMnemonic(Fill(n, b))
    /\ mnBack' = [err |-> "none", entropy |-> <<>>]
    /\ UNCHANGED mnOthers

\* a call of keyService.MnemonicToEntropy on the mnemonic made last
CallMnemonicToEntropy ==
    /\ mnWords.err = "nil"
    /\ mnBack' = MnemonicToEntropy(mnWords.words)
    /\ UNCHANGED <<mnEntropy, mnWords, mnOthers>>

\* no mnemonic has been made
MnemonicIdle ==
    /\ mnEntropy = <<>>
    /\ mnWords = [by |-> "none", err |-> "none", words |-> <<>>]
    /\ mnBack = [err |-> "none", entropy |-> <<>>]

\* the strengths handed to GenerateMnemonic and the entropy lengths handed
\* to EntropyToMnemonic
Strengths == {64, 128, 144, 160, 192, 224, 256}
EntropyLens == {8, 16, 18, 20, 24, 28, 32}

NextMnemonic ==
    \/ \E strength \in Strengths, b \in FillBytes : CallGenerateMnemonic(strength, b)
    \/ \E n \in EntropyLens, b \in FillBytes : CallEntropyToMnemonic(n, b)
    \/ CallMnemonicToEntropy

----------------------------------------------------------------------------
(* ParseDerivationPath.  A string is the sequence of its characters.        *)

Digits == {"0", "1", "2", "3", "4", "5", "6", "7", "8", "9"}

DigitValue(c) ==
    CASE c = "0" -> 0 [] c = "1" -> 1 [] c = "2" -> 2 [] c = "3" -> 3 [] c = "4" -> 4
      [] c = "5" -> 5 [] c = "6" -> 6 [] c = "7" -> 7 [] c = "8" -> 8 [] OTHER -> 9

\* strings.TrimPrefix
TrimPrefix(str, prefix) ==
    IF Len(str) >= Len(prefix) /\ SubSeq(str, 1, Len(prefix)) = prefix
    THEN SubSeq(str, Len(prefix) + 1, Len(str))
    ELSE str

\* strings.HasSuffix(component, "'") and strings.TrimSuffix(component, "'")
HasSuffix(str) == Len(str) > 0 /\ str[Len(str)] = "'"
TrimSuffix(str) == IF HasSuffix(str) THEN SubSeq(str, 1, Len(str) - 1) ELSE str

\* strings.Split(str, "/"): the pieces between the slashes, empty ones kept
RECURSIVE Split(_)
Split(str) ==
    IF \A i \in 1..Len(str) : str[i] # "/" THEN <<str>>
    ELSE LET i == CHOOSE k \in 1..Len(str) : str[k] = "/" /\ \A j \in 1..(k - 1) : str[j] # "/"
         IN <<SubSeq(str, 1, i - 1)>> \o Split(SubSeq(str, i + 1, Len(str)))

\* strconv.ParseUint's loop over the bytes, the number kept in two halves of
\* 16 bits: the first byte that is no digit ends it with ErrSyntax, the
\* first digit that takes the number past 32 bits with ErrRange and maxVal
RECURSIVE ReadDigits(_)
ReadDigits(str) ==
    IF str = <<>> THEN [hi |-> 0, lo |-> 0, err |-> "nil"]
    ELSE LET before == ReadDigits(SubSeq(str, 1, Len(str) - 1))
             lo == before.lo * 10 + DigitValue(str[Len(str)])
             hi == before.hi * 10 + (lo \div 65536)
         IN IF before.err # "nil" THEN before
            ELSE IF str[Len(str)] \notin Digits THEN [hi |-> 0, lo |-> 0, err |-> "ErrSyntax"]
            ELSE IF hi >= 65536 THEN [hi |-> 65535, lo |-> 65535, err |-> "ErrRange"]
            ELSE [hi |-> hi, lo |-> lo % 65536, err |-> "nil"]

\* strconv.ParseUint(component, 10, 32), its value as [n, h]
ParseUint(str) ==
    IF str = <<>> THEN [err |-> "ErrSyntax", v |-> U32(0)]
    ELSE [err |-> ReadDigits(str).err,
          v |-> [n |-> (ReadDigits(str).hi % 32768) * 65536 + ReadDigits(str).lo,
                 h |-> ReadDigits(str).hi >= 32768]]

\* parsePathComponent: 0 beside the error of ParseUint
ParsePathComponent(component) ==
    LET parsed == ParseUint(TrimSuffix(component))
    IN IF parsed.err # "nil" THEN [err |-> parsed.err, v |-> U32(0)]
       ELSE IF HasSuffix(component) THEN [err |-> "nil", v |-> [parsed.v EXCEPT !.h = TRUE]]
       ELSE parsed

NoPath == DerivationPath(U32(0), U32(0), U32(0), U32(0), U32(0))

\* ParseDerivationPath: the components are parsed from left to right and the
\* first failure returns; the change value is tested before the address
\* index is parsed
ParseDerivationPath(path) ==
    LET cleanPath == TrimPrefix(path, <<"m", "/">>)
        components == Split(cleanPath)
    IN IF cleanPath = path THEN [err |-> "ErrPrefix", dp |-> NoPath]
       ELSE IF Len(components) # 5 THEN [err |-> "ErrComponents", dp |-> NoPath]
       ELSE IF ParsePathComponent(components[1]).err # "nil"
            THEN [err |-> "ErrPurpose", dp |-> NoPath]
       ELSE IF ParsePathComponent(components[2]).err # "nil"
            THEN [err |-> "ErrCoinType", dp |-> NoPath]
       ELSE IF ParsePathComponent(components[3]).err # "nil"
            THEN [err |-> "ErrAccount", dp |-> NoPath]
       ELSE IF ParsePathComponent(components[4]).err # "nil"
            THEN [err |-> "ErrChangeSyntax", dp |-> NoPath]
       ELSE IF ParsePathComponent(components[4]).v \notin {U32(0), U32(1)}
            THEN [err |-> "ErrChange", dp |-> NoPath]
       ELSE IF ParsePathComponent(components[5]).err # "nil"
            THEN [err |-> "ErrAddressIndex", dp |-> NoPath]
       ELSE [err |-> "nil",
             dp |-> DerivationPath(ParsePathComponent(components[1]).v,
                                   ParsePathComponent(components[2]).v,
                                   ParsePathComponent(components[3]).v,
                                   ParsePathComponent(components[4]).v,
                                   ParsePathComponent(components[5]).v)]

\* the strings handed to ParseDerivationPath: a prefix, then components
\* joined by slashes
PathPrefixes == {<<"m", "/">>, <<>>, <<"M", "/">>}
PurposeTexts == {<<"4", "4", "'">>, <<"4", "4">>}
CoinTexts == {<<"0", "'">>, <<"6", "0">>, <<"2", "1", "4", "7", "4", "8", "3", "6", "4", "8">>,
              <<"4", "2", "9", "4", "9", "6", "7", "2", "9", "6">>, <<"x">>}
AccountTexts == {<<"0", "'">>, <<>>, <<"1", "'", "'">>, <<"0", "0", "7">>}
ChangeTexts == {<<"0">>, <<"1">>, <<"2">>, <<"1", "'">>}
IndexTexts == {<<"0">>, <<"5", "'">>, <<"-", "1">>}
PathTails == {<<>>, <<"/", "0">>}

PathStrings ==
    {prefix \o purpose \o <<"/">> \o coin \o <<"/">> \o account \o <<"/">> \o change \o tail :
        prefix \in PathPrefixes, purpose \in PurposeTexts, coin \in CoinTexts,
        account \in AccountTexts, change \in ChangeTexts,
        tail \in {<<>>} \cup {<<"/">> \o index \o t : index \in IndexTexts, t \in PathTails}}

\* the call of ParseDerivationPath on the string at hand returns
CallParseDerivationPath ==
    /\ dpOut.err = "none"
    /\ dpIn # <<>>
    /\ dpOut' = ParseDerivationPath(dpIn)
    /\ UNCHANGED <<dpIn, walletVars, saveVars, createVars, envVars, catalogVars, mnVars, heapVars,
                   flightVars, singletonVars, listVars, termVars, repoVars>>

\* no path has been parsed
PathIdle ==
    /\ dpIn = <<>>
    /\ dpOut = [err |-> "none", dp |-> NoPath]

NextPath == CallParseDerivationPath

----------------------------------------------------------------------------
(* storage.WalletRepository: Save, Load and LoadAll called by goroutines.   *)
(* A map access takes time: a goroutine is at "writing" or "reading" while  *)
(* it is inside the map.                                                    *)

WalletIds == {"w1", "w2"}
\* the contents a wallet file can have
WalletContents == {"a", "b"}

NoCall == [pc |-> "idle", op |-> "none", id |-> "", val |-> ""]

\* the goroutines inside the map beside p
InMap(p) == {q \in Callers \ {p} : repoCall[q].pc \in {"writing", "reading"}}

\* what the repository's own variables look like to the other sections
repoOthers == <<walletVars, saveVars, createVars, envVars, catalogVars, mnVars, pathVars,
                heapVars, flightVars, singletonVars, listVars, termVars>>

\* a goroutine calls Save(wallet), Load(walletID) or LoadAll()
RepoCall(p, op, id, val) ==
    /\ ~repoFatal
    /\ repoCall[p].pc = "idle"
    /\ repoCall' = [repoCall EXCEPT ![p] = [pc |-> "called", op |-> op, id |-> id, val |-> val]]
    /\ UNCHANGED <<repoMu, repoCache, repoFiles, repoFatal, repoOthers>>

\* r.mu.Lock() of Save and LoadAll
RepoLock(p) ==
    /\ ~repoFatal
    /\ repoCall[p].pc = "called"
    /\ repoCall[p].op \in {"Save", "LoadAll"}
    /\ repoMu = [writer |-> 0, readers |-> {}]
    /\ repoMu' = [repoMu EXCEPT !.writer = p]
    /\ repoCall' = [repoCall EXCEPT ![p].pc = "locked"]
    /\ UNCHANGED <<repoCache, repoFiles, repoFatal, repoOthers>>

\* r.mu.RLock() of Load, then the lookup in the map begins
RepoRLock(p) ==
    /\ ~repoFatal
    /\ repoCall[p].pc = "called"
    /\ repoCall[p].op = "Load"
    /\ repoMu.writer = 0
    /\ repoMu' = [repoMu EXCEPT !.readers = @ \cup {p}]
    /\ repoCall' = [repoCall EXCEPT ![p].pc = "reading"]
    /\ UNCHANGED <<repoCache, repoFiles, repoFatal, repoOthers>>

\* Save: os.WriteFile, then the assignment to the map begins
RepoWriteFile(p) ==
    /\ ~repoFatal
    /\ repoCall[p].pc = "locked"
    /\ repoCall[p].op = "Save"
    /\ repoFiles' = [repoFiles EXCEPT ![repoCall[p].id] = <<repoCall[p].val>>]
    /\ repoCall' = [repoCall EXCEPT ![p].pc = "writing"]
    /\ UNCHANGED <<repoMu, repoCache, repoFatal, repoOthers>>

\* Load: the lookup ends; a hit returns the cached wallet, a miss reads the
\* file and, when there is one, begins the assignment to the map
RepoLookup(p) ==
    /\ ~repoFatal
    /\ repoCall[p].pc = "reading"
    /\ repoCall' = [repoCall EXCEPT ![p] =
           IF repoCache[repoCall[p].id] # <<>>
           THEN [@ EXCEPT !.pc = "unlocking", !.val = repoCache[repoCall[p].id][1]]
           ELSE IF repoFiles[repoCall[p].id] = <<>>
           THEN [@ EXCEPT !.pc = "unlocking", !.val = "ErrReadFile"]
           ELSE [@ EXCEPT !.pc = "writing", !.val = repoFiles[repoCall[p].id][1]]]
    /\ UNCHANGED <<repoMu, repoCache, repoFiles, repoFatal, repoOthers>>

\* LoadAll: os.ReadDir and os.ReadFile, then the assignments to the map begin
RepoReadDir(p) ==
    /\ ~repoFatal
    /\ repoCall[p].pc = "locked"
    /\ repoCall[p].op = "LoadAll"
    /\ repoCall' = [repoCall EXCEPT ![p].pc = "writing"]
    /\ UNCHANGED <<repoMu, repoCache, repoFiles, repoFatal, repoOthers>>

\* the map as the call of p leaves it
CacheWritten(p) ==
    IF repoCall[p].op = "LoadAll"
    THEN [id \in WalletIds |-> IF repoFiles[id] # <<>> THEN repoFiles[id] ELSE repoCache[id]]
    ELSE [repoCache EXCEPT ![repoCall[p].id] = <<repoCall[p].val>>]

\* the assignment to the map ends; beside another goroutine inside the map
\* the runtime may stop the process (concurrent map writes, concurrent map
\* read and map write) or let the assignment through
RepoWriteCache(p, caught) ==
    /\ ~repoFatal
    /\ repoCall[p].pc = "writing"
    /\ caught => InMap(p) # {}
    /\ repoFatal' = caught
    /\ repoCache' = IF caught THEN repoCache ELSE CacheWritten(p)
    /\ repoCall' = [repoCall EXCEPT ![p].pc = IF caught THEN "writing" ELSE "unlocking"]
    /\ UNCHANGED <<repoMu, repoFiles, repoOthers>>

\* the deferred r.mu.Unlock() or r.mu.RUnlock(), and the return
RepoUnlock(p) ==
    /\ ~repoFatal
    /\ repoCall[p].pc = "unlocking"
    /\ repoMu' = [writer |-> IF repoMu.writer = p THEN 0 ELSE repoMu.writer,
                  readers |-> repoMu.readers \ {p}]
    /\ repoCall' = [repoCall EXCEPT ![p] = NoCall]
    /\ UNCHANGED <<repoCache, repoFiles, repoFatal, repoOthers>>

\* NewWalletRepository: an empty map, nobody holds the lock
RepoFresh ==
    /\ repoMu = [writer |-> 0, readers |-> {}]
    /\ repoCache = [id \in WalletIds |-> <<>>]
    /\ repoCall = [p \in Callers |-> NoCall]
    /\ repoFatal = FALSE

\* a fresh repository over an empty keystore directory
RepoIdle ==
    /\ RepoFresh
    /\ repoFiles = [id \in WalletIds |-> <<>>]

NextRepo ==
    \/ \E p \in Callers, id \in WalletIds, val \in WalletContents : RepoCall(p, "Save", id, val)
    \/ \E p \in Callers, id \in WalletIds : RepoCall(p, "Load", id, "")
    \/ \E p \in Callers : RepoCall(p, "LoadAll", "", "")
    \/ \E p \in Callers : RepoLock(p)
    \/ \E p \in Callers : RepoRLock(p)
    \/ \E p \in Callers : RepoWriteFile(p)
    \/ \E p \in Callers : RepoLookup(p)
    \/ \E p \in Callers : RepoReadDir(p)
    \/ \E p \in Callers, caught \in BOOLEAN : RepoWriteCache(p, caught)
    \/ \E p \in Callers : RepoUnlock(p)

----------------------------------------------------------------------------
\* the sections after the catalog have not run
MoreIdle ==
    /\ MnemonicIdle
    /\ PathIdle
    /\ plain = Unwatched
    /\ flight = NoFlight
    /\ instance = "first"
    /\ once = DoneOnce
    /\ resetCall = NoReset
    /\ pwCall = NoPwCall
    /\ listing = NoListing
    /\ stdout = <<>>
    /\ RepoIdle

----------------------------------------------------------------------------
\* the wallet of a fresh process over an empty data directory
WalletInit ==
    /\ rootFile = NoFile
    /\ accountsFile = NoFile
    /\ addrFiles = [id \in AccountIds |-> NoFile]
    /\ rootWallet = Nil
    /\ isUnlocked = FALSE
    /\ enclave = Nil
    /\ isSealed = TRUE
    /\ nextRnd = 0
    /\ ret = [op |-> "init", err |-> "nil"]

\* CryptoServiceFactory.CreateDefault
DefaultService == [aead |-> "aes-gcm", kdf |-> "scrypt"]

Init ==
    /\ WalletInit
    /\ SaveIdle
    /\ CreateIdle
    /\ CatalogIdle
    /\ MoreIdle
    /\ EnvIdle
    /\ envSvc = DefaultService
    /\ envPlain = <<>>
    /\ envPw = ""
    /\ fsFiles = [f \in {WalletFile, TempFile(WalletFile)} |-> NoFile]

\* saveToFile over a file that is missing or holds a document written before
InitSave ==
    /\ WalletInit
    /\ SaveIdle
    /\ CreateIdle
    /\ CatalogIdle
    /\ MoreIdle
    /\ EnvIdle
    /\ envSvc = DefaultService
    /\ envPlain = <<>>
    /\ envPw = ""
    /\ \E old \in {NoFile} \cup {DiskFile(Encode(v)) : v \in Docs} :
          fsFiles = [f \in {WalletFile, TempFile(WalletFile)} |->
                       IF f = WalletFile THEN old ELSE NoFile]

NextSave ==
    \/ \E v \in Docs : SaveToFile(v)
    \/ \E ok \in BOOLEAN : CreateTemp(ok)
    \/ \E n \in 0..(MaxDocLen + 3), ok \in BOOLEAN : EncodeData(n, ok)
    \/ \E ok \in BOOLEAN : SyncTemp(ok)
    \/ \E ok \in BOOLEAN : RenameTemp(ok)
    \/ \E n \in 0..(MaxDocLen + 3) : Crash(n)

SpecSave == InitSave /\ [][NextSave]_vars

\* goroutines that call CreateNewWallet over an empty data directory
NextCreate ==
    \/ \E p \in Procs, pw \in Passwords : CallCreate(p, pw)
    \/ \E p \in Procs : MutexLock(p)
    \/ \E p \in Procs : CheckExisting(p)
    \/ \E p \in Procs, m \in ValidMnemonics, t \in Times : SealWallet(p, m, t)
    \/ \E p \in Procs, saved \in BOOLEAN : SaveWallet(p, saved)
    \/ \E p \in Procs : SetRootWallet(p)
    \/ \E p \in Procs : MutexUnlock(p)

SpecCreate == Init /\ [][NextCreate]_vars

\* a service of every AEAD and KDF, a payload and a password
InitEnvelope ==
    /\ WalletInit
    /\ SaveIdle
    /\ CreateIdle
    /\ CatalogIdle
    /\ MoreIdle
    /\ EnvIdle
    /\ fsFiles = [f \in {WalletFile, TempFile(WalletFile)} |-> NoFile]
    /\ envSvc \in [aead : Aeads, kdf : Kdfs]
    /\ envPlain \in Payloads
    /\ envPw \in Passwords

NextEnvelope ==
    \/ \E s \in SaltDraws, n \in NonceDraws : EnvEncrypt(s, n)
    \/ \E cut \in Cuts, pw \in Passwords : EnvDecrypt(cut, pw)

SpecEnvelope == InitEnvelope /\ [][NextEnvelope]_vars

\* the calls of EncryptData and DecryptData of a process that replaces its
\* default service between them
NextGlobal ==
    \/ \E s \in SaltDraws, n \in NonceDraws : EnvEncrypt(s, n)
    \/ \E cut \in Cuts, pw \in Passwords : EnvDecrypt(cut, pw)
    \/ \E svc \in [aead : Aeads, kdf : Kdfs] : SetGlobalCryptoService(svc)

SpecGlobal == InitEnvelope /\ [][NextGlobal]_vars

\* a data directory whose files are missing or do not hold JSON
InitCatalog ==
    /\ rootFile \in {NoFile, CorruptFile}
    /\ accountsFile \in {NoFile, CorruptFile}
    /\ addrFiles \in [AccountIds -> {NoFile, CorruptFile}]
    /\ rootWallet = Nil
    /\ isUnlocked = FALSE
    /\ enclave = Nil
    /\ isSealed = TRUE
    /\ nextRnd = 0
    /\ ret = [op |-> "init", err |-> "nil"]
    /\ SaveIdle
    /\ CreateIdle
    /\ CatalogIdle
    /\ MoreIdle
    /\ EnvIdle
    /\ envSvc = DefaultService
    /\ envPlain = <<>>
    /\ envPw = ""
    /\ fsFiles = [f \in {WalletFile, TempFile(WalletFile)} |-> NoFile]

\* goroutines that call the store
NextCatalog ==
    \/ \E p \in Callers, a \in StoreAccounts : StoreCall(p, "SaveAccount", <<a>>)
    \/ \E p \in Callers, a \in StoreAddresses : StoreCall(p, "SaveAddress", <<a>>)
    \/ \E p \in Callers : StoreCall(p, "LoadAccounts", <<>>)
    \/ \E p \in Callers, id \in StoreAddressIds : StoreCall(p, "LoadAddresses", <<id>>)
    \/ \E p \in Callers : StoreCall(p, "LoadRootWallet", <<>>)
    \/ \E p \in Callers : StoreLock(p)
    \/ \E p \in Callers : StoreRLock(p)
    \/ \E p \in Callers : StoreLoad(p)
    \/ \E p \in Callers, saved \in BOOLEAN : StoreSave(p, saved)
    \/ \E p \in Callers : StoreUnlock(p)

SpecCatalog == InitCatalog /\ [][NextCatalog]_vars

SpecMnemonic == Init /\ [][NextMnemonic]_vars

\* a process about to parse one of the path strings
InitPath ==
    /\ WalletInit
    /\ SaveIdle
    /\ CreateIdle
    /\ CatalogIdle
    /\ MnemonicIdle
    /\ EnvIdle
    /\ envSvc = DefaultService
    /\ envPlain = <<>>
    /\ envPw = ""
    /\ fsFiles = [f \in {WalletFile, TempFile(WalletFile)} |-> NoFile]
    /\ dpIn \in PathStrings
    /\ dpOut = [err |-> "none", dp |-> NoPath]
    /\ plain = Unwatched
    /\ flight = NoFlight
    /\ instance = "first"
    /\ once = DoneOnce
    /\ resetCall = NoReset
    /\ pwCall = NoPwCall
    /\ listing = NoListing
    /\ stdout = <<>>
    /\ RepoIdle

SpecPath == InitPath /\ [][NextPath]_vars

\* what a caller can hand to UnlockWallet as the encrypted mnemonic
CallerBlobs ==
    {NotHex}
    \cup {w.encryptedMnemonic : w \in {LoadRootWallet.wallet[i] : i \in 1..Len(LoadRootWallet.wallet)}}
    \cup {w.encryptedSeed : w \in {LoadRootWallet.wallet[i] : i \in 1..Len(LoadRootWallet.wallet)}}
    \cup {EncryptData(<<"anything">>, pw, 0) : pw \in Passwords}

\* The goroutine of the REPL makes one call after the other; the goroutine
\* of the session locks the wallet whenever its context is cancelled, and
\* the password manager can be cleared beside it.
Next ==
    \/ /\ flight = NoFlight
       /\ \E pw \in Passwords, m \in ValidMnemonics, t \in Times, saved \in BOOLEAN :
            CreateNewWallet(pw, m, t, saved)
    \/ /\ flight = NoFlight
       /\ \E pw \in Passwords, m \in Mnemonics, t \in Times, saved \in BOOLEAN :
            RestoreWalletFromMnemonic(m, pw, t, saved)
    \/ /\ flight = NoFlight
       /\ \E b \in CallerBlobs, pw \in Passwords : UnlockWallet(b, pw)
    \/ \E pw \in Passwords : SetPassword(pw)
    \/ /\ flight = NoFlight
       /\ CallGetPassword
    \/ /\ flight = NoFlight
       /\ \E pw \in Passwords : CallVerifyPassword(pw)
    \/ /\ flight = NoFlight
       /\ \E id \in AccountIds : CallGetAddresses(id)
    \/ LockWallet
    \/ Clear
    \/ HandleWalletLock
    \/ HandleWalletLockClear
    \/ \E dp \in Paths : CreateNewAccount(dp)
    \/ CallDeriveAccountKey
    \/ \E id \in DeriveIds, c \in ChangeTypes, i \in AddressIndexes : DeriveAddress(id, c, i)
    \/ CallLoadAccounts
    \/ CallOnceDo
    \/ CallGetPasswordManager
    \/ CallDeriveAddressKey
    \/ CallPassword
    \/ \E saved \in BOOLEAN : CallSaveAccount(saved)
    \/ \E saved \in BOOLEAN : CallSaveAddress(saved)

Spec == Init /\ [][Next]_vars

\* the operations that lead to a derivation, DeriveAddress with any uint32
\* as change type and index
NextDerive ==
    \/ /\ flight = NoFlight
       /\ \E pw \in Passwords, m \in ValidMnemonics, t \in Times, saved \in BOOLEAN :
            CreateNewWallet(pw, m, t, saved)
    \/ /\ flight = NoFlight
       /\ \E b \in CallerBlobs, pw \in Passwords : UnlockWallet(b, pw)
    \/ \E pw \in Passwords : SetPassword(pw)
    \/ LockWallet
    \/ \E dp \in Paths : CreateNewAccount(dp)
    \/ CallDeriveAccountKey
    \/ \E id \in DeriveIds, c \in AnyChangeTypes, i \in AnyAddressIndexes :
         DeriveAddress(id, c, i)
    \/ CallLoadAccounts
    \/ CallOnceDo
    \/ CallGetPasswordManager
    \/ CallDeriveAddressKey
    \/ CallPassword
    \/ \E saved \in BOOLEAN : CallSaveAccount(saved)
    \/ \E saved \in BOOLEAN : CallSaveAddress(saved)

SpecDerive == Init /\ [][NextDerive]_vars

\* the reads of the account manager, each by a goroutine of its own, beside
\* the calls that create the wallet, lock and unlock it and store accounts
NextList ==
    \/ /\ flight = NoFlight
       /\ \E pw \in Passwords, m \in ValidMnemonics, t \in Times, saved \in BOOLEAN :
            CreateNewWallet(pw, m, t, saved)
    \/ /\ flight = NoFlight
       /\ \E b \in CallerBlobs, pw \in Passwords : UnlockWallet(b, pw)
    \/ \E pw \in Passwords : SetPassword(pw)
    \/ LockWallet
    \/ \E dp \in Paths : CreateNewAccount(dp)
    \/ CallDeriveAccountKey
    \/ CallOnceDo
    \/ CallGetPasswordManager
    \/ CallPassword
    \/ \E saved \in BOOLEAN : CallSaveAccount(saved)
    \/ \E ct \in CoinTypes : CallGetAccountsByCoin(ct)
    \/ CallGetAccountsByCoinLoad
    \/ \E id \in AccountIds : CallGetAddresses(id)

SpecList == Init /\ [][NextList]_vars

\* the wallet of a fresh process whose heap is watched
InitHeap ==
    /\ WalletInit
    /\ SaveIdle
    /\ CreateIdle
    /\ CatalogIdle
    /\ MnemonicIdle
    /\ PathIdle
    /\ plain = {}
    /\ flight = NoFlight
    /\ instance = "first"
    /\ once = DoneOnce
    /\ resetCall = NoReset
    /\ pwCall = NoPwCall
    /\ listing = NoListing
    /\ stdout = <<>>
    /\ RepoIdle
    /\ EnvIdle
    /\ envSvc = DefaultService
    /\ envPlain = <<>>
    /\ envPw = ""
    /\ fsFiles = [f \in {WalletFile, TempFile(WalletFile)} |-> NoFile]

SpecHeap == InitHeap /\ [][Next]_vars

\* the wallet commands of the REPL, one command after the other, and beside
\* them the resets of the password manager singleton and the reads through it
NextRepl ==
    \/ /\ Running
       /\ \E pw \in Passwords, m \in ValidMnemonics, t \in Times, saved \in BOOLEAN :
            HandleWalletCreate(pw, m, t, saved)
    \/ /\ Running
       /\ HandleWalletCreateExport
    \/ /\ Running
       /\ flight = NoFlight
       /\ \E pw \in Passwords, m \in Mnemonics, t \in Times, saved \in BOOLEAN :
            HandleWalletRestore(m, pw, t, saved)
    \/ /\ Running
       /\ \E pw \in Passwords : HandleWalletUnlock(pw)
    \/ /\ Running
       /\ HandleWalletUnlockCall
    \/ /\ Running
       /\ HandleWalletUnlockSet
    \/ /\ Running
       /\ HandleWalletLock
    \/ /\ Running
       /\ HandleWalletLockClear
    \/ /\ Running
       /\ ResetInstance
    \/ /\ Running
       /\ ResetOnce
    \/ /\ Running
       /\ CallSecurityPassword
    \/ /\ Running
       /\ OnceDoSlow
    \/ /\ Running
       /\ OnceDo
    \/ /\ Running
       /\ GetPasswordManagerReturn
    \/ /\ Running
       /\ SecurityPasswordGet

SpecRepl == Init /\ [][NextRepl]_vars

\* the wallet commands of the REPL, one command after the other, and the
\* LockWallet of the session's goroutine beside them; nothing else sets or
\* clears the password
NextCmd ==
    \/ \E pw \in Passwords, m \in ValidMnemonics, t \in Times, saved \in BOOLEAN :
         HandleWalletCreate(pw, m, t, saved)
    \/ HandleWalletCreateExport
    \/ /\ flight = NoFlight
       /\ \E pw \in Passwords, m \in Mnemonics, t \in Times, saved \in BOOLEAN :
            HandleWalletRestore(m, pw, t, saved)
    \/ \E pw \in Passwords : HandleWalletUnlock(pw)
    \/ HandleWalletUnlockCall
    \/ HandleWalletUnlockSet
    \/ HandleWalletLock
    \/ HandleWalletLockClear
    \/ LockWallet

SpecCmd == Init /\ [][NextCmd]_vars

\* the path and the password of the derivations made beside the resets
ResetPath == DerivationPath(Hardened(44), Hardened(0), Hardened(0), U32(0), U32(0))
ResetPassword == "pw1"

\* the derivations of the account manager, one call after the other, and
\* beside them SetPassword and LockWallet, the resets of the password manager
\* singleton and the security.Password() of another goroutine; a panic or a
\* fatal error ends them all
NextReset ==
    \/ /\ Running
       /\ flight = NoFlight
       /\ \E m \in ValidMnemonics, t \in Times :
            CreateNewWallet(ResetPassword, m, t, TRUE)
    \/ /\ Running
       /\ flight = NoFlight
       /\ \E b \in CallerBlobs : UnlockWallet(b, ResetPassword)
    \/ /\ Running
       /\ \E pw \in Passwords : SetPassword(pw)
    \/ /\ Running
       /\ LockWallet
    \/ /\ Running
       /\ CreateNewAccount(ResetPath)
    \/ /\ Running
       /\ CallDeriveAccountKey
    \/ /\ Running
       /\ DeriveAddress(IDString(PathString(ResetPath)), U32(0), U32(0))
    \/ /\ Running
       /\ CallLoadAccounts
    \/ /\ Running
       /\ CallOnceDo
    \/ /\ Running
       /\ CallOnceDoSlow
    \/ /\ Running
       /\ CallOnceFunc
    \/ /\ Running
       /\ CallGetPasswordManager
    \/ /\ Running
       /\ CallDeriveAddressKey
    \/ /\ Running
       /\ CallPassword
    \/ /\ Running
       /\ CallSaveAccount(TRUE)
    \/ /\ Running
       /\ CallSaveAddress(TRUE)
    \/ /\ Running
       /\ ResetInstance
    \/ /\ Running
       /\ ResetOnce
    \/ /\ Running
       /\ CallSecurityPassword
    \/ /\ Running
       /\ OnceDoSlow
    \/ /\ Running
       /\ OnceDo
    \/ /\ Running
       /\ GetPasswordManagerReturn
    \/ /\ Running
       /\ SecurityPasswordGet

SpecReset == Init /\ [][NextReset]_vars

\* a fresh repository over a keystore directory that earlier runs have filled
InitRepo ==
    /\ WalletInit
    /\ SaveIdle
    /\ CreateIdle
    /\ CatalogIdle
    /\ MnemonicIdle
    /\ PathIdle
    /\ plain = Unwatched
    /\ flight = NoFlight
    /\ instance = "first"
    /\ once = DoneOnce
    /\ resetCall = NoReset
    /\ pwCall = NoPwCall
    /\ listing = NoListing
    /\ stdout = <<>>
    /\ EnvIdle
    /\ envSvc = DefaultService
    /\ envPlain = <<>>
    /\ envPw = ""
    /\ fsFiles = [f \in {WalletFile, TempFile(WalletFile)} |-> NoFile]
    /\ RepoFresh
    /\ repoFiles \in [WalletIds -> {<<>>} \cup {<<c>> : c \in WalletContents}]

SpecRepo == InitRepo /\ [][NextRepo]_vars

----------------------------------------------------------------------------
(* The lock state machine, the password manager and the catalog.           *)

\* the files of the store
files == <<rootFile, accountsFile, addrFiles>>

\* whether the password opens the sealed secrets of the stored root wallet
OpensStored(password) ==
    /\ LoadRootWallet.wallet # Nil
    /\ Opens(LoadRootWallet.wallet[1].encryptedSeed, password)
    /\ Opens(LoadRootWallet.wallet[1].encryptedMnemonic, password)

\* C1: an UnlockWallet whose password does not open the stored root wallet
\* returns an error and leaves the lock state, the password cache and every
\* file as they were.
C1_WrongPasswordRefused ==
    [][\A b \in CallerBlobs, pw \in Passwords :
          (LoadRootWallet.wallet # Nil /\ ~OpensStored(pw) /\ UnlockWallet(b, pw))
          => /\ ret'.err # "nil"
             /\ UNCHANGED <<isUnlocked, rootWallet, enclave, isSealed, files>>]_vars

\* C2: CreateNewAccount and DeriveAddress, called while the wallet is locked,
\* return ErrWalletLocked and leave the accounts index and every address
\* file unchanged.
C2_LockedDerivationRefused ==
    [][(/\ IsLocked
        /\ flight = NoFlight
        /\ \/ \E dp \in Paths : CreateNewAccount(dp)
           \/ \E id \in DeriveIds, c \in ChangeTypes, i \in AddressIndexes :
                DeriveAddress(id, c, i))
          => /\ ret'.op \in {"CreateNewAccount", "DeriveAddress"}
             /\ ret'.err = "ErrWalletLocked"
             /\ flight' = NoFlight
             /\ UNCHANGED <<accountsFile, addrFiles, rootFile>>]_vars

\* a derivation was called while locked, over a store that holds an account,
\* with a password cached
C2_Witness ==
    /\ ret = [op |-> "DeriveAddress", err |-> "ErrWalletLocked"]
    /\ IsLocked
    /\ PasswordIsSet
    /\ Len(LoadAllAccounts.accounts) > 0

\* C3: an UnlockWallet succeeds only with a password that opens the sealed
\* secrets of the root wallet held in storage.
C3_UnlockChecksStored ==
    [][\A b \in CallerBlobs, pw \in Passwords :
          (UnlockWallet(b, pw) /\ ret'.err = "nil" /\ isUnlocked') => OpensStored(pw)]_vars

\* C6: once a root wallet is stored, no operation changes or removes it.
C6_RootWalletNeverChanges ==
    [][LoadRootWallet.wallet # Nil => rootFile' = rootFile]_vars

LockOps == {"LockWallet", "wallet.lock"}

\* C8: LockWallet (and wallet.lock, which adds Clear) ends locked from any
\* state, and a second call right after the first changes nothing.
C8_LockIdempotent ==
    [][/\ (LockWallet \/ HandleWalletLock) => ~isUnlocked'
       /\ HandleWalletLockClear => (~isUnlocked' /\ ~PasswordIsSet')
       /\ ((ret.op = "LockWallet" /\ LockWallet)
           \/ (ret.op = "wallet.lock" /\ (HandleWalletLock \/ HandleWalletLockClear)))
              => UNCHANGED <<rootWallet, isUnlocked, enclave, isSealed, files, nextRnd>>]_vars

\* a lock that found the wallet unlocked: the stored wallet is loaded by
\* create, restore and unlock, and dropped from memory only by such a lock
C8_Witness ==
    /\ ret.op \in LockOps
    /\ LoadRootWallet.wallet # Nil
    /\ rootWallet = Nil

\* C9: after Clear the manager holds no password: the enclave is dropped,
\* GetPassword and VerifyPassword fail with ErrPasswordNotSet until the next
\* SetPassword, and GetPassword returns the cached password only while set.
C9_ClearDropsPassword ==
    /\ [](/\ (ret.op \in {"Clear", "wallet.lock"}) => (enclave = Nil /\ isSealed)
          /\ (~PasswordIsSet) =>
                (/\ GetPassword.err = "ErrPasswordNotSet"
                 /\ \A pw \in Passwords : VerifyPassword(pw).err = "ErrPasswordNotSet")
          /\ (GetPassword.err = "nil") =>
                (PasswordIsSet /\ GetPassword.password = enclave[1]))
    /\ [][((~PasswordIsSet /\ PasswordIsSet') => (ret'.op = "SetPassword"))
           /\ ((~PasswordIsSet /\ ret'.op \in {"GetPassword", "VerifyPassword"})
                  => (ret'.err = "ErrPasswordNotSet"))]_vars

\* GetPassword was called after a Clear that dropped a cached password
C9_Witness ==
    /\ ret = [op |-> "GetPassword", err |-> "ErrPasswordNotSet"]
    /\ enclave = Nil
    /\ isUnlocked

\* C10: no two records of accounts.json have the same id.
C10_AccountIdsUnique ==
    \A i, j \in 1..Len(LoadAllAccounts.accounts) :
        LoadAllAccounts.accounts[i].ID = LoadAllAccounts.accounts[j].ID => i = j

\* two accounts are stored and the first was written again after the second
\* was added: CreateNewAccount ran twice with the first one's path
C10_Witness ==
    /\ Len(LoadAllAccounts.accounts) = 2
    /\ LoadAllAccounts.accounts[1].EncryptedAccountPrivateKey.rnd
         > LoadAllAccounts.accounts[2].EncryptedAccountPrivateKey.rnd

----------------------------------------------------------------------------
(* saveToFile *)

\* C5: the file saveToFile is asked to write changes in one step only, the
\* rename, which leaves the complete new document in it; before that step,
\* whether the call fails, stops or goes on, the file holds what it held;
\* after a return of nil it holds the new document; and it never holds a
\* part of a document.
C5_SaveIsAtomic ==
    /\ [](/\ fsFiles[WalletFile].st = "ok" => LoadFromFile(WalletFile).err = "nil"
          /\ saveRet = "nil" => fsFiles[WalletFile] = DiskFile(Encode(saveData)))
    /\ [][fsFiles'[WalletFile] # fsFiles[WalletFile]
            => /\ savePc = "rename"
               /\ saveRet' = "nil"
               /\ fsFiles'[WalletFile] = DiskFile(Encode(saveData))]_vars

\* the process stopped in the middle of the write of a new document: a part
\* of it is in the temporary file, the file itself holds the old document
C5_Witness ==
    /\ saveRet = "stopped"
    /\ fsFiles[TempFile(WalletFile)].st = "ok"
    /\ Len(fsFiles[TempFile(WalletFile)].data) \in 1..(Len(Encode(saveData)) - 1)
    /\ fsFiles[WalletFile].st = "ok"
    /\ LoadFromFile(WalletFile).err = "nil"
    /\ LoadFromFile(WalletFile).v # saveData

----------------------------------------------------------------------------
(* CreateNewWallet *)

\* the wallet's state a refused CreateNewWallet must leave as it is
createState == <<rootFile, rootWallet, isUnlocked, nextRnd, accountsFile, addrFiles>>

\* C7: a CreateNewWallet that finds a root wallet stored returns the
\* wallet-exists error, draws no randomness, writes nothing, and nothing of
\* the store or the lock state changes before it returns; and of the calls
\* goroutines make over an empty store, at most one returns nil.
C7_CreateOnlyOnce ==
    /\ [](Cardinality({p \in Procs : cret[p] = "nil"}) <= 1)
    /\ [][\A p \in Procs :
            /\ (cpc[p] = "check" /\ cpc'[p] # "check" /\ LoadRootWallet.wallet # Nil)
                 => (cret'[p] = "ErrWalletExists" /\ cpc'[p] = "unlock")
            /\ (cpc[p] = "unlock" /\ cret[p] = "ErrWalletExists")
                 => UNCHANGED createState
            /\ (cret'[p] = "ErrWalletExists" /\ cret[p] # cret'[p])
                 => UNCHANGED createState]_vars

\* two goroutines have called and returned: one created the wallet, the
\* other found it
C7_Witness ==
    /\ \E p \in Procs : cret[p] = "nil" /\ cpc[p] = "done"
    /\ \E p \in Procs : cret[p] = "ErrWalletExists" /\ cpc[p] = "done"
    /\ LoadRootWallet.wallet = rootWallet
    /\ LoadRootWallet.wallet # Nil

----------------------------------------------------------------------------
(* The envelope *)

\* C4: for every AEAD and KDF, payload and password, Decrypt of what Encrypt
\* returned gives back the payload under the same password and fails with
\* ErrDecryptionFailed under another.
C4_EnvelopeRoundTrip ==
    (envIn = "whole") =>
        IF envOpenPw = envPw
        THEN envOut = [err |-> "nil", pt |-> envPlain]
        ELSE envOut = [err |-> "ErrDecryptionFailed", pt |-> <<>>]

----------------------------------------------------------------------------
(* The catalog: accounts and addresses *)

\* whether an account with the id of the path is stored
AccountStored(derivationPath) ==
    FirstAccountIndex(LoadAllAccounts.accounts, IDString(PathString(MaskSuffix(derivationPath))), 1) > 0

\* C11: a successful CreateNewAccount over a store that holds the account of
\* the path seals nothing and leaves accounts.json as it was; and no step
\* ever changes or drops an account record that is stored.
C11_AccountNeverMutated ==
    [][/\ (flight.op = "CreateNewAccount" /\ flight.pc = "Password"
              /\ AccountStored(flight.arg[1]))
            => UNCHANGED nextRnd
       /\ (flight.op = "CreateNewAccount" /\ flight.pc = "Save"
              /\ AccountStored(flight.arg[1]) /\ CallSaveAccount(TRUE))
            => UNCHANGED accountsFile
       /\ \A i \in 1..Len(LoadAllAccounts.accounts) :
            /\ i <= Len(LoadAllAccounts'.accounts)
            /\ LoadAllAccounts'.accounts[i] = LoadAllAccounts.accounts[i]]_vars

----------------------------------------------------------------------------
(* The envelope: errors *)

\* C12: Decrypt of a blob altered in any way returns the error that Decrypt
\* of the unaltered blob returns under a wrong password.
C12_TamperLikeWrongPassword ==
    (envIn \in Cuts \ {"whole"}) =>
        \A pw \in Passwords \ {envPw} :
            envOut.err = ServiceDecrypt(envSvc, envBlob, pw).err

\* C13: a blob sealed under one default service opens, with the password it
\* was sealed with, under whatever default is in force when DecryptData is
\* called (here: whenever that default is an AES-GCM service).
C13_OpenIgnoresDefault ==
    [][(envSvc.aead = "aes-gcm" /\ EnvDecrypt("whole", envPw))
          => envOut' = [err |-> "nil", pt |-> envPlain]]_vars


\* C14: immediately after a successful CreateNewWallet the wallet is locked
\* and no password is cached: IsLocked is true and Password() fails with
\* ErrPasswordNotSet.
C14_CreateLeavesLocked ==
    [][/\ ((\E pw \in Passwords, m \in ValidMnemonics, t \in Times :
               HandleWalletCreate(pw, m, t, TRUE))
           /\ flight'.pc = "ExportMnemonic")
          => (IsLocked' /\ Password'.err = "ErrPasswordNotSet")
       /\ HandleWalletCreateExport
          => (IsLocked' /\ Password'.err = "ErrPasswordNotSet")]_vars

\* a wallet.create whose CreateNewWallet has stored the wallet, after a
\* wallet.create that failed to save
C14_Witness ==
    /\ flight.op = "wallet.create"
    /\ flight.pc = "ExportMnemonic"
    /\ rootFile # NoFile
    /\ rootWallet # Nil
    /\ nextRnd > 2


\* C15: GetAccountsByCoin and GetAddresses are read-only and succeed whether
\* the wallet is locked or unlocked.
C15_ListsWorkLocked ==
    [][/\ ((\E ct \in CoinTypes : CallGetAccountsByCoin(ct))
           \/ CallGetAccountsByCoinLoad
           \/ (\E id \in AccountIds : CallGetAddresses(id)))
          => UNCHANGED <<rootFile, accountsFile, addrFiles>>
       /\ (((\E ct \in CoinTypes : CallGetAccountsByCoin(ct)) /\ listing' = NoListing)
           \/ CallGetAccountsByCoinLoad
           \/ (\E id \in AccountIds : CallGetAddresses(id)))
          => ret'.err = "nil"]_vars


\* C16: what a successful CreateNewAccount or DeriveAddress stored is seen by
\* every later read: each stored account is in the list GetAccountsByCoin
\* returns for its coin type, and each stored address is in the list
\* GetAddresses returns for its account.
C16_WritesAreRead ==
    /\ \A i \in 1..Len(LoadAllAccounts.accounts) :
         LET account == LoadAllAccounts.accounts[i]
         IN /\ GetAccountsByCoin(CoinTypeOf(account)).err = "nil"
            /\ \E j \in 1..Len(GetAccountsByCoin(CoinTypeOf(account)).accounts) :
                 GetAccountsByCoin(CoinTypeOf(account)).accounts[j] = account
    /\ \A id \in AccountIds : \A i \in 1..Len(LoadAddressList(id).addresses) :
         /\ GetAddresses(id).err = "nil"
         /\ \E j \in 1..Len(GetAddresses(id).addresses) :
              GetAddresses(id).addresses[j] = LoadAddressList(id).addresses[i]


\* C17: in every reachable state each address file holds at most one
\* AddressKey per (account id, change type, address index), whatever
\* DeriveAddress calls wrote it.
C17_AddressKeysUnique ==
    \A id \in AccountIds :
        \A i, j \in 1..Len(LoadAddressList(id).addresses) :
            (/\ LoadAddressList(id).addresses[i].AccountID = LoadAddressList(id).addresses[j].AccountID
             /\ LoadAddressList(id).addresses[i].ChangeType = LoadAddressList(id).addresses[j].ChangeType
             /\ LoadAddressList(id).addresses[i].AddressIndex = LoadAddressList(id).addresses[j].AddressIndex)
            => i = j

\* a DeriveAddress has just stored an address in a file that holds two
C17_Witness ==
    /\ ret = [op |-> "DeriveAddress", err |-> "nil"]
    /\ \E id \in AccountIds : Len(LoadAddressList(id).addresses) = 2


\* C18: every stored AddressKey has change type 0 or 1 and an address index
\* without the hardened bit: a DeriveAddress with another change type or a
\* hardened index stores nothing.
C18_AddressFieldsValid ==
    \A id \in AccountIds : \A i \in 1..Len(LoadAddressList(id).addresses) :
        /\ LoadAddressList(id).addresses[i].ChangeType \in {U32(0), U32(1)}
        /\ ~LoadAddressList(id).addresses[i].AddressIndex.h


\* C19: under every interleaving of SaveAccount and SaveAddress calls with
\* distinct keys, the record of every call that returned success is in its
\* file: no update is lost.
C19_NoLostUpdate ==
    \A p \in Callers :
        (kpc[p] = "done" /\ kret[p] = "nil" /\ kjob[p].op \in StoreWrites)
        => /\ StoreFile(kjob[p]).st = "ok"
           /\ \E i \in 1..Len(StoreFile(kjob[p]).data[1]) :
                StoreFile(kjob[p]).data[1][i] = kjob[p].arg[1]

\* two goroutines have returned from SaveAddress with success, each with its
\* own change type, and the file of the account holds two addresses
C19_Witness ==
    /\ \E p, q \in Callers :
         /\ p # q
         /\ kpc[p] = "done" /\ kret[p] = "nil" /\ kjob[p].op = "SaveAddress"
         /\ kpc[q] = "done" /\ kret[q] = "nil" /\ kjob[q].op = "SaveAddress"
    /\ \E id \in StoreAddressIds : Len(LoadAddressList(id).addresses) = 2

\* C20: a store file that exists and holds corrupt JSON makes SaveAccount,
\* SaveAddress, LoadAccounts, LoadAddresses and LoadRootWallet return an
\* error and is never replaced; a missing file is the empty store and no
\* error.
C20_CorruptStoreBlocks ==
    [][/\ (rootFile.st = "corrupt") => (rootFile' = rootFile)
       /\ (accountsFile.st = "corrupt") => (accountsFile' = accountsFile)
       /\ \A id \in AccountIds : (addrFiles[id].st = "corrupt") => (addrFiles'[id] = addrFiles[id])
       /\ \A p \in Callers :
            StoreLoad(p) =>
              /\ (StoreFile(kjob[p]).st = "corrupt")
                   => (kret'[p] = "ErrDecode" /\ kpc'[p] = "unlock")
              /\ (StoreFile(kjob[p]).st = "missing")
                   => /\ kloaded'[p] = <<>>
                      /\ IF kjob[p].op \in StoreWrites
                         THEN kpc'[p] = "save" /\ kret'[p] = "none"
                         ELSE kpc'[p] = "unlock" /\ kret'[p] = "nil"]_vars

\* a write and a read have returned the error of a corrupt file that is
\* still there
C20_Witness ==
    /\ kpc[1] = "done" /\ kjob[1].op = "SaveAccount" /\ kret[1] = "ErrDecode"
    /\ kpc[2] = "done" /\ kjob[2].op = "LoadRootWallet" /\ kret[2] = "ErrDecode"
    /\ accountsFile = CorruptFile
    /\ rootFile = CorruptFile


\* C21: for every strength in {128, 160, 192, 224, 256} the mnemonic of
\* GenerateMnemonic has (strength + strength/32)/11 words and its last
\* strength/32 bits are the leading strength/32 bits of SHA-256(entropy).
C21_MnemonicChecksum ==
    (mnWords.by = "GenerateMnemonic" /\ mnWords.err = "nil")
    => LET strength == 8 * Len(mnEntropy)
           checksumBits == strength \div 32
           bits == WordsBits(mnWords.words)
       IN /\ Len(mnWords.words) = (strength + checksumBits) \div 11
          /\ SubSeq(bits, 1, strength) = BytesToBits(mnEntropy)
          /\ BitsToInt(SubSeq(bits, Len(bits) - checksumBits + 1, Len(bits)))
               = ShiftRight(Sha256Byte0(mnEntropy), 8 - checksumBits)

\* C22: for every entropy of 16, 20, 24, 28 or 32 bytes EntropyToMnemonic
\* succeeds and MnemonicToEntropy of its mnemonic returns that entropy.
C22_MnemonicRoundTrip ==
    (mnWords.by = "EntropyToMnemonic" /\ Len(mnEntropy) \in {16, 20, 24, 28, 32})
    => /\ mnWords.err = "nil"
       /\ (mnBack.err # "none") => (mnBack = [err |-> "nil", entropy |-> mnEntropy])


\* C23: the stored seed is a function of the mnemonic and the cloak only: a
\* RestoreWalletFromMnemonic of the mnemonic already stored, under whatever
\* keystore password, stores the seed that was stored before.
C23_SeedIgnoresPassword ==
    [][\A m \in ValidMnemonics, pw \in Passwords, t \in Times :
         (/\ LoadRootWallet.wallet # Nil
          /\ LoadRootWallet.wallet[1].encryptedMnemonic.pt = MnemonicBytes(m)
          /\ RestoreWalletFromMnemonic(m, pw, t, TRUE)
          /\ ret'.err = "nil")
         => LoadRootWallet'.wallet[1].encryptedSeed.pt = LoadRootWallet.wallet[1].encryptedSeed.pt]_vars


----------------------------------------------------------------------------
\* C24: ParseDerivationPath accepts a string exactly when it starts with m/,
\* has exactly 5 segments, each a decimal number optionally followed by one
\* apostrophe, and its change segment denotes 0 or 1; every other string is
\* rejected with an error; and each segment's value of an accepted string is
\* the number, with bit 31 set exactly when the apostrophe is present.
C24_ParseAcceptsBip44 ==
    (dpOut.err # "none")
    => LET segments == Split(SubSeq(dpIn, 3, Len(dpIn)))
           IsNumber(text) == text # <<>> /\ \A i \in 1..Len(text) : text[i] \in Digits
           wellFormed ==
               /\ Len(dpIn) >= 2 /\ dpIn[1] = "m" /\ dpIn[2] = "/"
               /\ Len(segments) = 5
               /\ \A i \in 1..5 : IsNumber(TrimSuffix(segments[i]))
               /\ ~HasSuffix(segments[4])
               /\ ReadDigits(segments[4]).err = "nil"
               /\ ReadDigits(segments[4]).hi = 0
               /\ ReadDigits(segments[4]).lo \in {0, 1}
           values == <<dpOut.dp.Purpose, dpOut.dp.CoinType, dpOut.dp.AccountIndex,
                       dpOut.dp.Change, dpOut.dp.AddressIndex>>
       IN /\ (dpOut.err = "nil") <=> wellFormed
          /\ (dpOut.err = "nil")
             => \A i \in 1..5 :
                    /\ values[i].h <=> HasSuffix(segments[i])
                    /\ values[i].n = (ReadDigits(TrimSuffix(segments[i])).hi % 32768) * 65536
                                     + ReadDigits(TrimSuffix(segments[i])).lo


----------------------------------------------------------------------------
\* C25: the sealed extended key of every account CreateNewAccount stores is
\* the key derived from the root seed along exactly the three indices its
\* stored derivation_path string denotes, each of them hardened as the
\* string shows it, also when the path handed in had a purpose, coin type or
\* account index without the hardened bit.
C25_KeyFollowsStoredPath ==
    [][(flight.pc = "Save" /\ CallSaveAccount(TRUE) /\ LoadRootWallet.wallet # Nil)
       => \A i \in 1..Len(LoadAllAccounts'.accounts) :
              (i > Len(LoadAllAccounts.accounts) \/ LoadAllAccounts'.accounts[i] # LoadAllAccounts.accounts[i])
              => LoadAllAccounts'.accounts[i].EncryptedAccountPrivateKey.pt
                   = DeriveAccountKey(LoadRootWallet.wallet[1].encryptedSeed.pt,
                         DerivationPath(Hardened(LoadAllAccounts'.accounts[i].DerivationPath.purpose),
                                        Hardened(LoadAllAccounts'.accounts[i].DerivationPath.coin),
                                        Hardened(LoadAllAccounts'.accounts[i].DerivationPath.account),
                                        LoadAllAccounts'.accounts[i].DerivationPath.change,
                                        LoadAllAccounts'.accounts[i].DerivationPath.index))]_vars


----------------------------------------------------------------------------
\* C26: CreateNewAccount anchors the account at the account level: the
\* derivation_path it stores has change 0 and address index 0, and the id
\* and the stored path depend on the purpose, coin type and account index of
\* the path handed in alone, so that two paths agreeing on these three yield
\* the same account id and the same stored path (one stored account).
C26_AccountLevelAnchor ==
    [][\A dp \in Paths :
         (flight.pc = "Save" /\ flight.arg = <<dp>> /\ CallSaveAccount(TRUE))
         => /\ \A i \in 1..Len(LoadAllAccounts'.accounts) :
                  /\ LoadAllAccounts'.accounts[i].DerivationPath.change = U32(0)
                  /\ LoadAllAccounts'.accounts[i].DerivationPath.index = U32(0)
            /\ \E i \in 1..Len(LoadAllAccounts'.accounts) :
                  /\ LoadAllAccounts'.accounts[i].DerivationPath
                       = [purpose |-> dp.Purpose.n, coin |-> dp.CoinType.n,
                          account |-> dp.AccountIndex.n,
                          change |-> U32(0), index |-> U32(0)]
                  /\ LoadAllAccounts'.accounts[i].ID = IDString(LoadAllAccounts'.accounts[i].DerivationPath)
                  /\ \A j \in 1..Len(LoadAllAccounts'.accounts) :
                        (LoadAllAccounts'.accounts[j].ID = LoadAllAccounts'.accounts[i].ID) => j = i]_vars

\* CreateNewAccount has stored the account of m/44'/0'/0' and a second one
C26_Witness ==
    /\ ret = [op |-> "CreateNewAccount", err |-> "nil"]
    /\ Len(LoadAllAccounts.accounts) = 2
    /\ \E i \in 1..2 :
          LoadAllAccounts.accounts[i].ID
            = IDString(PathString(MaskSuffix(
                  DerivationPath(Hardened(44), Hardened(0), Hardened(0), U32(1), U32(5)))))


----------------------------------------------------------------------------
\* C27: no plaintext secret outlives the operation that materialized it: when
\* CreateNewAccount or DeriveAddress has returned, with or without an error,
\* every plaintext buffer it obtained (the copy of the password, the seed,
\* the account key, the derived child key) has been zeroized.
C27_NoPlaintextLeft ==
    (ret.op \in {"CreateNewAccount", "DeriveAddress"} /\ flight = NoFlight) => plain = {}


----------------------------------------------------------------------------
\* C28: wallet.lock wins against the derivations in flight: once Lock
\* (LockWallet, then PasswordManager.Clear) has returned, no account and no
\* address record is written to the store; a derivation that passed its
\* IsLocked check before has written by then or fails without writing.
C28_LockStopsWrites ==
    [][(ret.op = "Clear" /\ IsLocked /\ ~PasswordIsSet)
       => (accountsFile' = accountsFile /\ addrFiles' = addrFiles)]_vars


----------------------------------------------------------------------------
\* C29: the two halves of the secret state agree between commands: after any
\* sequence of completed wallet.create, wallet.restore, wallet.unlock and
\* wallet.lock commands the password manager the REPL holds has a cached
\* password exactly when the wallet manager reports Unlocked, and the cached
\* password is the one given to the last wallet.unlock that unlocked the
\* wallet.
C29_SecretStateAgrees ==
    [][/\ (flight' = NoFlight) => ((GetPassword'.err = "nil") <=> ~IsLocked')
       /\ HandleWalletUnlockSet
             => GetPassword' = [err |-> "nil", password |-> flight.arg[1]]
       /\ (GetPassword.err = "nil" /\ GetPassword'.err = "nil")
             => GetPassword' = GetPassword]_vars


----------------------------------------------------------------------------
\* C30: the cache of the wallet repository is modified only by a goroutine
\* that holds the exclusive lock: in no interleaving of Save, Load and
\* LoadAll are two goroutines writing the map at the same time, or one
\* writing it while another reads it, and once the calls have returned every
\* cached wallet equals the content of its file.
C30_CacheWritesExclusive ==
    /\ ~repoFatal
    /\ \A p \in Callers :
          (repoCall[p].pc = "writing") => (repoMu.writer = p /\ InMap(p) = {})
    /\ (\A p \in Callers : repoCall[p].pc = "idle")
          => \A id \in WalletIds : (repoCache[id] # <<>>) => (repoCache[id] = repoFiles[id])

====
